---- MODULE Spec2Model ----
(***************************************************************************)
(* Session bookkeeping of the presence-tracking bot.                       *)
(*                                                                         *)
(* The key-value store of services/storage.ts is modelled by one variable  *)
(* per key family:                                                         *)
(*   userSessions   user-sessions:{userId}      -> UserSession[]           *)
(*   allActive      all-active-sessions         -> UserSession[]           *)
(*   groups         sessions:{type}:{name}      -> GroupSession            *)
(*   history        activity-history:all        -> ActivityHistory[]       *)
(*                                                                         *)
(* Spec      drives startUserActivity / endUserActivity one call at a time *)
(*           (each call is one action: the whole function body).           *)
(* SpecCalls is Spec with every call and its result appended to a log.     *)
(* SpecAsync drives handlePresenceUpdate as the gateway client does: every *)
(*           PresenceUpdate event starts a new execution of the async      *)
(*           handler, and executions advance from one await to the next.   *)
(* SpecSerial is SpecAsync with one execution in flight at a time.         *)
(* SpecStats  takes one call (a start, an end, getActivitiesByPeriod or    *)
(*           generateRetrospective) on each store of a bounded set.        *)
(* SpecNamed  takes one generateRetrospective on stores with an activity   *)
(*           named "Unknown".                                              *)
(* SpecCommands runs /retrospectiva or /atividades once on stores whose    *)
(*           names hold commas, quotes and line breaks.                    *)
(* SpecPages runs /atividades on lists of up to MaxItems activities and    *)
(*           then the component interactions of its collector.             *)
(* SpecRegistry runs up to MaxMessages /atividades invocations with their  *)
(*           collectors and the registry paginationInstances.              *)
(* SpecPagination calls the methods of one ActivityPagination directly.    *)
(***************************************************************************)
EXTENDS Integers, Sequences, FiniteSets, TLC

\* ------------------------------------------------------------------ bounds
MaxClock == 1      \* largest value Date.now() returns
MaxSessions == 2   \* sessions in the store, active or ended
MaxEvents == 2     \* PresenceUpdate events emitted to the async handler
MaxCalls == 4      \* calls in a logged call sequence

\* ------------------------------------------------------------------ inputs
Users == {"u1", "u2"}
Activities == {[name |-> "Chess", type |-> 0],
               [name |-> "Chess", type |-> 1],
               [name |-> "Go", type |-> 0]}

\* user.tag and user.avatar || "" of the Discord user behind a userId
UsernameOf(userId) == IF userId = "u1" THEN "ana#1" ELSE "bo#2"
AvatarOf(userId) == <<userId, "avatar">>

\* An optional value (T | null): <<>> is null, <<x>> is x.
Null == <<>>
Some(x) == <<x>>

VARIABLES
    clock,          \* the last value Date.now() returned
    userSessions,   \* [userId -> sequence of UserSession]
    allActive,      \* sequence of UserSession
    groups,         \* function: stored GroupSession keys -> GroupSession
    history,        \* sequence of ActivityHistory
    sent,           \* the POSTs of the most recent call; a handler that resumes
                    \* after its POST keeps the response with it
    last,           \* the most recent completed call and what it returned
    handlers,       \* [execution of handlePresenceUpdate -> its position
                    \*  and local variables]
    events,         \* PresenceUpdate events emitted so far
    presence,       \* [userId -> the activities of the user's cached
                    \*  presence, which the next event passes as oldPresence]
    log,            \* under SpecCalls: every completed call, in order
    replies,        \* what the command or component interaction under way
                    \* has sent to Discord, in order
    pagination,     \* the ActivityPagination objects, one per /atividades
                    \* message, in the order the command has built them
    collectors,     \* the messages whose component collector is running;
                    \* the collector of message m holds pagination[m]
    paginationInstances,
                    \* the registry of atividades.ts:
                    \* userId -> the message whose pagination is registered
    files           \* the files written to .exports, in order

vars == <<clock, userSessions, allActive, groups, history, sent, last,
          handlers, events, presence, log, replies, pagination,
          collectors, paginationInstances, files>>
storeVars == <<userSessions, allActive, groups, history>>
commandVars == <<replies, pagination, collectors, paginationInstances, files>>

\* no command has run
CommandInit ==
    /\ replies = <<>>
    /\ pagination = <<>>
    /\ collectors = {}
    /\ paginationInstances = <<>>
    /\ files = <<>>

\* ----------------------------------------------------------- pure helpers
\* Date.now(): wall-clock time never runs backwards between two reads.
DateNow(prev) == prev..MaxClock

\* sessions:{activityType}:{activityName}
getGroupSessionKey(activityName, activityType) ==
    <<"sessions", activityType, activityName>>

\* storage.getItem on a group key, users converted back to a Map
getGroupSession(store, activityName, activityType) ==
    LET key == getGroupSessionKey(activityName, activityType)
    IN IF key \in DOMAIN store THEN Some(store[key]) ELSE Null

\* storage.setItem on a group key
saveGroupSession(store, session) ==
    LET key == getGroupSessionKey(session.activityName, session.activityType)
    IN [k \in (DOMAIN store) \cup {key} |->
          IF k = key THEN session ELSE store[k]]

\* storage.removeItem
removeItem(store, key) == [k \in (DOMAIN store) \ {key} |-> store[k]]

\* Array.prototype.findIndex, 1-based; 0 stands for -1.
\* hits are the indices whose element satisfies the callback.
findIndex(hits) ==
    IF hits = {} THEN 0
    ELSE CHOOSE i \in hits : \A j \in hits : i <= j

\* Array.prototype.splice(index, 1)
splice1(s, index) ==
    [i \in 1..(Len(s) - 1) |-> IF i < index THEN s[i] ELSE s[i + 1]]

\* Map.prototype.set on users (a Map keeps keys in insertion order; setting
\* an existing key replaces the value in place).
MapSet(users, userId, userSession) ==
    LET i == findIndex({k \in 1..Len(users) : users[k].userId = userId})
    IN IF i = 0 THEN Append(users, userSession)
       ELSE [users EXCEPT ![i] = userSession]

\* Map.prototype.delete
MapDelete(users, userId) ==
    LET keep(s) == s.userId # userId
    IN SelectSeq(users, keep)

\* Array.from(users.keys())
MapKeys(users) == [i \in 1..Len(users) |-> users[i].userId]

\* ------------------------------------------------- session-manager.ts
\* getUserActiveSessions: storage.getItem(user-sessions:{userId}) ?? []
getUserActiveSessions(store, userId) == store[userId]

\* saveUserSessions: storage.setItem(user-sessions:{userId}, sessions)
saveUserSessions(store, userId, sessions) ==
    [store EXCEPT ![userId] = sessions]

\* wasAlreadyGroup of startUserActivity, from the group read before the insert
wasAlreadyGroupOf(groupSession) ==
    groupSession # Null /\ Len(groupSession[1].users) > 0

\* startGroupSession that never loads the stored group
startGroupSessionFresh(groupSession, userSession, now) ==
    [activityName |-> userSession.activityName,
     activityType |-> userSession.activityType,
     users |-> <<userSession>>,
     createdAt |-> now]

\* the group startUserActivity saves: the stored one, or a new one, with the
\* user set in its users Map
startGroupSession(groupSession, userSession, now) ==
    LET base == IF groupSession = Null
                THEN [activityName |-> userSession.activityName,
                      activityType |-> userSession.activityType,
                      users |-> <<>>,
                      createdAt |-> now]
                ELSE groupSession[1]
    IN [base EXCEPT !.users = MapSet(@, userSession.userId, userSession)]

\* startSessionType that counts from zero
startSessionTypeAny(groupSession) ==
    IF Len(groupSession.users) > 0 THEN "group" ELSE "solo"

\* sessionType of startUserActivity, from the group after the insert
startSessionType(groupSession) ==
    IF Len(groupSession.users) > 1 THEN "group" ELSE "solo"

\* a payload that says player_joined whatever the event
registerEventPayloadJoined(discordId, discordAvatar, discordUsername, gameTitle, eventType) ==
    [discord_id |-> discordId, discord_name |-> discordUsername,
     discord_avatar |-> discordAvatar, game_title |-> gameTitle,
     event_type |-> "player_joined"]

\* registerPlayerJoined / registerPlayerLeft: the payload POSTed
registerEventPayload(discordId, discordAvatar, discordUsername, gameTitle, eventType) ==
    [discord_id |-> discordId, discord_name |-> discordUsername,
     discord_avatar |-> discordAvatar, game_title |-> gameTitle,
     event_type |-> eventType]

\* what the POST can do: answer 2xx, answer another status, or fail (fetch
\* rejects, or the body is not JSON)
ApiOutcomes == {"ok", "http_error", "exception"}

\* registerEvent without the try/catch: an exception leaves the function
registerEventUncaught(payload, outcome) ==
    [threw |-> outcome = "exception",
     response |-> [success |-> outcome = "ok", message |-> outcome]]

\* registerEvent: the ApiResponse it resolves to; a status that is not 2xx
\* and a caught exception both give success: false, and nothing is thrown
registerEvent(payload, outcome) ==
    [threw |-> FALSE,
     response |-> [success |-> outcome = "ok", message |-> outcome]]

\* the value an awaiting caller goes on with, none when the call threw
Returned(api, value) == IF api.threw THEN Null ELSE Some(value)

\* findSessionIndex that compares the activity name only
findSessionIndexByName(sessions, activityName, activityType) ==
    findIndex({i \in 1..Len(sessions) :
                  sessions[i].activityName = activityName})

\* userSessions.findIndex(s => s.activityName === activityName &&
\*                             s.activityType === activityType)
findSessionIndex(sessions, activityName, activityType) ==
    findIndex({i \in 1..Len(sessions) :
                  /\ sessions[i].activityName = activityName
                  /\ sessions[i].activityType = activityType})

\* allActive.findIndex(s => s.userId === userId && ...)
findGlobalIndex(sessions, userId, activityName, activityType) ==
    findIndex({i \in 1..Len(sessions) :
                  /\ sessions[i].userId = userId
                  /\ sessions[i].activityName = activityName
                  /\ sessions[i].activityType = activityType})

\* pushHistory that puts the new record first
pushHistoryFirst(histories, record) == <<record>> \o histories

\* saveActivityHistory: allHistories.push(history) on the stored array
pushHistory(histories, record) == Append(histories, record)

\* endRemainingUsers that falls back to the leaving user without a group
endRemainingUsersSelf(groupSession, userId) ==
    LET other(id) == id # userId
    IN IF groupSession # Null
       THEN SelectSeq(MapKeys(groupSession[1].users), other)
       ELSE <<userId>>

\* remainingUsers of endUserActivity
endRemainingUsers(groupSession, userId) ==
    LET other(id) == id # userId
    IN IF groupSession # Null
       THEN SelectSeq(MapKeys(groupSession[1].users), other)
       ELSE <<>>

\* endSessionType that takes any stored group for a group session
endSessionTypeAny(groupSession) ==
    IF groupSession # Null /\ Len(groupSession[1].users) > 0
    THEN "group" ELSE "solo"

\* sessionType of endUserActivity, from the group read before the removal
endSessionType(groupSession) ==
    LET wasGroupSession == IF groupSession # Null
                           THEN Len(groupSession[1].users) > 1
                           ELSE FALSE
    IN IF wasGroupSession THEN "group" ELSE "solo"

\* the global list after endUserActivity: spliced only when an entry is found
endAllActive(sessions, userId, activityName, activityType) ==
    LET globalIndex == findGlobalIndex(sessions, userId, activityName,
                                       activityType)
    IN IF globalIndex # 0 THEN splice1(sessions, globalIndex) ELSE sessions

\* endGroups that saves the group even when nobody remains
endGroupsAlwaysSave(store, groupSession, userId, remainingUsers, activityName, activityType) ==
    IF groupSession # Null
    THEN saveGroupSession(store,
            [groupSession[1] EXCEPT !.users = MapDelete(@, userId)])
    ELSE store

\* the group keys after endUserActivity: the key is removed when nobody
\* remains, else the group is saved without the user
endGroups(store, groupSession, userId, remainingUsers, activityName, activityType) ==
    IF groupSession # Null
    THEN IF Len(remainingUsers) = 0
         THEN removeItem(store, getGroupSessionKey(activityName, activityType))
         ELSE saveGroupSession(store,
                [groupSession[1] EXCEPT !.users = MapDelete(@, userId)])
    ELSE store

\* getGroupSessionUsers: Array.from(session.users.values()), [] without group
getGroupSessionUsers(store, activityName, activityType) ==
    LET session == getGroupSession(store, activityName, activityType)
    IN IF session = Null THEN <<>> ELSE session[1].users

\* ------------------------------------------- executions of the handler
\* client.on(Events.PresenceUpdate, handlePresenceUpdate): the emitter calls
\* the async listener and does not await the promise it returns, so every
\* event starts an execution of its own.
Handlers == {1, 2}

\* presence.activities of the events explored
Chess0 == [name |-> "Chess", type |-> 0]
Go0 == [name |-> "Go", type |-> 0]
Presences == {<<>>, <<Chess0>>, <<Go0>>, <<Chess0, Go0>>}

NoSession == [userId |-> "", username |-> "", avatarUrl |-> <<>>,
              activityName |-> "", activityType |-> 0, startTimestamp |-> 0]

\* an execution that is not running: no position, locals at their defaults
Idle == [pc |-> "idle", userId |-> "", ended |-> <<>>, started |-> <<>>,
         userSession |-> NoSession, sessions |-> <<>>, sessionIndex |-> 0,
         duration |-> 0, endTimestamp |-> 0, allActive |-> <<>>,
         groupSession |-> Null, remainingUsers |-> <<>>,
         sessionType |-> "", wasAlreadyGroup |-> FALSE,
         histories |-> <<>>]

\* ------------------------------------------------------ calls, one by one
Init ==
    /\ clock = 0
    /\ userSessions = [u \in Users |-> <<>>]
    /\ allActive = <<>>
    /\ groups = <<>>
    /\ history = <<>>
    /\ sent = <<>>
    /\ last = [op |-> "none", userId |-> "", activityName |-> "",
               activityType |-> 0, ret |-> Null, threw |-> FALSE]
    /\ handlers = [h \in Handlers |-> Idle]
    /\ events = 0
    /\ presence = [u \in Users |-> <<>>]
    /\ log = <<>>
    /\ CommandInit

startUserActivity(userId, username, avatarUrl, activityName, activityType) ==
    /\ Len(allActive) + Len(history) < MaxSessions
    /\ \E now \in DateNow(clock), outcome \in ApiOutcomes :
        LET userSession == [userId |-> userId, username |-> username,
                            avatarUrl |-> avatarUrl,
                            activityName |-> activityName,
                            activityType |-> activityType,
                            startTimestamp |-> now]
            found == getGroupSession(groups, activityName, activityType)
            wasAlreadyGroup == wasAlreadyGroupOf(found)
            groupSession == startGroupSession(found, userSession, now)
            sessionType == startSessionType(groupSession)
            payload == registerEventPayload(userId, avatarUrl, username,
                                            activityName, "player_joined")
            api == registerEvent(payload, outcome)
        IN /\ clock' = now
           /\ userSessions' = saveUserSessions(userSessions, userId,
                 Append(getUserActiveSessions(userSessions, userId),
                        userSession))
           /\ allActive' = Append(allActive, userSession)
           /\ groups' = saveGroupSession(groups, groupSession)
           /\ sent' = <<[payload |-> payload]>>
           /\ last' = [op |-> "start", userId |-> userId,
                       activityName |-> activityName,
                       activityType |-> activityType,
                       ret |-> Returned(api,
                                 [sessionType |-> sessionType,
                                  wasAlreadyGroup |-> wasAlreadyGroup]),
                       threw |-> api.threw]
           /\ UNCHANGED <<history, handlers, events, presence>>

endUserActivity(userId, activityName, activityType) ==
    LET sessions == getUserActiveSessions(userSessions, userId)
        sessionIndex == findSessionIndex(sessions, activityName, activityType)
    IN /\ UNCHANGED <<handlers, events, presence>>
       /\ IF sessionIndex = 0
          THEN /\ sent' = <<>>
               /\ last' = [op |-> "end", userId |-> userId,
                           activityName |-> activityName,
                           activityType |-> activityType, ret |-> Null, threw |-> FALSE]
               /\ UNCHANGED <<clock, storeVars>>
          ELSE /\ \E t1 \in DateNow(clock), outcome \in ApiOutcomes :
                 \E t2 \in DateNow(t1) :
                   LET userSession == sessions[sessionIndex]
                       duration == t1 - userSession.startTimestamp
                       endTimestamp == t2
                       groupSession == getGroupSession(groups, activityName,
                                                       activityType)
                       remainingUsers == endRemainingUsers(groupSession, userId)
                       sessionType == endSessionType(groupSession)
                       record == [userId |-> userSession.userId,
                                  username |-> userSession.username,
                                  activityName |-> userSession.activityName,
                                  activityType |-> userSession.activityType,
                                  startTimestamp |-> userSession.startTimestamp,
                                  endTimestamp |-> endTimestamp,
                                  duration |-> duration,
                                  sessionType |-> sessionType]
                       payload == registerEventPayload(userId,
                                     userSession.avatarUrl,
                                     userSession.username, activityName,
                                     "player_left")
                       api == registerEvent(payload, outcome)
                   IN /\ clock' = t2
                      /\ history' = pushHistory(history, record)
                      /\ userSessions' = saveUserSessions(userSessions, userId,
                                            splice1(sessions, sessionIndex))
                      /\ allActive' = endAllActive(allActive, userId,
                                                   activityName, activityType)
                      /\ groups' = endGroups(groups, groupSession, userId,
                                             remainingUsers, activityName,
                                             activityType)
                      /\ sent' = <<[payload |-> payload]>>
                      /\ last' = [op |-> "end", userId |-> userId,
                                  activityName |-> activityName,
                                  activityType |-> activityType,
                                  ret |-> Returned(api,
                                            [sessionType |-> sessionType,
                                             duration |-> duration,
                                             remainingUsers |-> remainingUsers,
                                             userSession |-> userSession]),
                                  threw |-> api.threw]

Start ==
    \E userId \in Users, activity \in Activities :
        /\ startUserActivity(userId, UsernameOf(userId), AvatarOf(userId),
                             activity.name, activity.type)
        /\ UNCHANGED <<log, commandVars>>

End ==
    \E userId \in Users, activity \in Activities :
        /\ endUserActivity(userId, activity.name, activity.type)
        /\ UNCHANGED <<log, commandVars>>

\* --------------------------------------- handlePresenceUpdate, by awaits
\* An execution is suspended at an awaited storage or API operation; pc names
\* the source line of that operation.  One step performs the operation and
\* runs the synchronous code that follows it, up to the next await.

\* new Map(); for (activity of activities) map.set(`${type}:${name}`, ...):
\* the distinct keys, in first-insertion order
RECURSIVE ActivityMap(_)
ActivityMap(activities) ==
    IF activities = <<>> THEN <<>>
    ELSE LET m == ActivityMap(SubSeq(activities, 1, Len(activities) - 1))
             a == activities[Len(activities)]
         IN IF \E i \in 1..Len(m) : m[i] = a THEN m ELSE Append(m, a)

MapHas(m, a) == \E i \in 1..Len(m) : m[i] = a

\* the activities the first loop ends: keys of the old map missing in the new
endedActivities(oldActivities, newActivities) ==
    LET gone(a) == ~MapHas(ActivityMap(newActivities), a)
    IN SelectSeq(ActivityMap(oldActivities), gone)

\* a second loop that starts every key of the new map
startedActivitiesAll(oldActivities, newActivities) ==
    ActivityMap(newActivities)

\* the activities the second loop starts: keys of the new map missing in old
startedActivities(oldActivities, newActivities) ==
    LET fresh(a) == ~MapHas(ActivityMap(oldActivities), a)
    IN SelectSeq(ActivityMap(newActivities), fresh)

\* the execution at its next call: the ends first, then the starts, then done
NextCall(hd) ==
    IF hd.ended # <<>> THEN [hd EXCEPT !.pc = "e229"]
    ELSE IF hd.started # <<>> THEN [hd EXCEPT !.pc = "s121"]
    ELSE Idle

\* the current call has returned and its loop iteration is over
CallDone(hd) ==
    NextCall([Idle EXCEPT
        !.userId = hd.userId,
        !.ended = IF hd.ended # <<>> THEN Tail(hd.ended) ELSE <<>>,
        !.started = IF hd.ended # <<>> THEN hd.started ELSE Tail(hd.started)])

\* the activity of the call the execution is in
CurrentActivity(hd) ==
    IF hd.ended # <<>> THEN Head(hd.ended) ELSE Head(hd.started)

\* an event is emitted with the cached presence as oldPresence (activities
\* [] while nothing is cached): the synchronous head of the handler runs
PresenceUpdate(h, userId, oldActivities, newActivities) ==
    /\ events < MaxEvents
    /\ oldActivities = presence[userId]
    /\ presence' = [presence EXCEPT ![userId] = newActivities]
    /\ handlers[h].pc = "idle"
    /\ \A g \in Handlers : handlers[g].pc = "idle" => h <= g
    /\ events' = events + 1
    /\ handlers' = [handlers EXCEPT ![h] = NextCall([Idle EXCEPT
            !.userId = userId,
            !.ended = endedActivities(oldActivities, newActivities),
            !.started = startedActivities(oldActivities, newActivities)])]
    /\ UNCHANGED <<clock, storeVars, sent, last, log, commandVars>>

\* endUserActivity: getUserActiveSessions resolves; no match returns null
EndGetUserSessions(h) ==
    LET hd == handlers[h]
        activity == CurrentActivity(hd)
        sessions == getUserActiveSessions(userSessions, hd.userId)
        sessionIndex == findSessionIndex(sessions, activity.name,
                                         activity.type)
    IN /\ hd.pc = "e229"
       /\ UNCHANGED <<storeVars, events, presence, log, commandVars>>
       /\ IF sessionIndex = 0
          THEN /\ handlers' = [handlers EXCEPT ![h] = CallDone(hd)]
               /\ sent' = <<>>
               /\ last' = [op |-> "end", userId |-> hd.userId,
                           activityName |-> activity.name,
                           activityType |-> activity.type, ret |-> Null, threw |-> FALSE]
               /\ UNCHANGED clock
          ELSE /\ \E t1 \in DateNow(clock) : \E t2 \in DateNow(t1) :
                    /\ clock' = t2
                    /\ handlers' = [handlers EXCEPT ![h] = [hd EXCEPT
                          !.pc = "e243",
                          !.sessions = sessions,
                          !.sessionIndex = sessionIndex,
                          !.userSession = sessions[sessionIndex],
                          !.duration = t1 - sessions[sessionIndex].startTimestamp,
                          !.endTimestamp = t2]]
               /\ UNCHANGED <<sent, last>>

\* endUserActivity: getGroupSession resolves
EndGetGroupSession(h) ==
    LET hd == handlers[h]
        activity == CurrentActivity(hd)
        groupSession == getGroupSession(groups, activity.name, activity.type)
    IN /\ hd.pc = "e243"
       /\ handlers' = [handlers EXCEPT ![h] = [hd EXCEPT
             !.pc = "e160",
             !.groupSession = groupSession,
             !.remainingUsers = endRemainingUsers(groupSession, hd.userId),
             !.sessionType = endSessionType(groupSession)]]
       /\ UNCHANGED <<clock, storeVars, sent, last, events, presence, log, commandVars>>

\* saveActivityHistory: storage.getItem resolves, the record is pushed
SaveHistoryGet(h) ==
    LET hd == handlers[h]
        record == [userId |-> hd.userSession.userId,
                   username |-> hd.userSession.username,
                   activityName |-> hd.userSession.activityName,
                   activityType |-> hd.userSession.activityType,
                   startTimestamp |-> hd.userSession.startTimestamp,
                   endTimestamp |-> hd.endTimestamp,
                   duration |-> hd.duration,
                   sessionType |-> hd.sessionType]
    IN /\ hd.pc = "e160"
       /\ handlers' = [handlers EXCEPT ![h] = [hd EXCEPT
             !.pc = "e162",
             !.histories = pushHistory(history, record)]]
       /\ UNCHANGED <<clock, storeVars, sent, last, events, presence, log, commandVars>>

\* saveActivityHistory: storage.setItem; then the session is spliced out
SaveHistorySet(h) ==
    LET hd == handlers[h]
    IN /\ hd.pc = "e162"
       /\ history' = hd.histories
       /\ handlers' = [handlers EXCEPT ![h] = [hd EXCEPT
             !.pc = "e268",
             !.histories = <<>>,
             !.sessions = splice1(hd.sessions, hd.sessionIndex)]]
       /\ UNCHANGED <<clock, userSessions, allActive, groups, sent, last,
                      events, presence, log, commandVars>>

\* where endUserActivity goes once the global list is dealt with
AfterAllActive(hd) ==
    IF hd.groupSession # Null THEN [hd EXCEPT !.pc = "e290"]
    ELSE [hd EXCEPT !.pc = "e298"]

\* endUserActivity: saveUserSessions
EndSaveUserSessions(h) ==
    LET hd == handlers[h]
    IN /\ hd.pc = "e268"
       /\ userSessions' = saveUserSessions(userSessions, hd.userId,
                                           hd.sessions)
       /\ handlers' = [handlers EXCEPT ![h] = [hd EXCEPT
             !.pc = "e271", !.sessions = <<>>, !.sessionIndex = 0]]
       /\ UNCHANGED <<clock, allActive, groups, history, sent, last, events, presence, log, commandVars>>

\* endUserActivity: getAllActiveSessions resolves
EndGetAllActive(h) ==
    LET hd == handlers[h]
        activity == CurrentActivity(hd)
        globalIndex == findGlobalIndex(allActive, hd.userId, activity.name,
                                       activity.type)
    IN /\ hd.pc = "e271"
       /\ handlers' = [handlers EXCEPT ![h] =
             IF globalIndex # 0
             THEN [hd EXCEPT !.pc = "e280",
                             !.allActive = splice1(allActive, globalIndex)]
             ELSE AfterAllActive(hd)]
       /\ UNCHANGED <<clock, storeVars, sent, last, events, presence, log, commandVars>>

\* endUserActivity: saveAllActiveSessions
EndSaveAllActive(h) ==
    LET hd == handlers[h]
    IN /\ hd.pc = "e280"
       /\ allActive' = hd.allActive
       /\ handlers' = [handlers EXCEPT ![h] =
             AfterAllActive([hd EXCEPT !.allActive = <<>>])]
       /\ UNCHANGED <<clock, userSessions, groups, history, sent, last,
                      events, presence, log, commandVars>>

\* endUserActivity: storage.removeItem or saveGroupSession
EndUpdateGroup(h) ==
    LET hd == handlers[h]
        activity == CurrentActivity(hd)
    IN /\ hd.pc = "e290"
       /\ groups' = endGroups(groups, hd.groupSession, hd.userId,
                              hd.remainingUsers, activity.name, activity.type)
       /\ handlers' = [handlers EXCEPT ![h] = [hd EXCEPT !.pc = "e298"]]
       /\ UNCHANGED <<clock, userSessions, allActive, history, sent, last,
                      events, presence, log, commandVars>>

\* endUserActivity: registerPlayerLeft, then the result is returned; the
\* handler reads the group again when the session was a group with members left
EndRegisterPlayerLeft(h) ==
    LET hd == handlers[h]
        activity == CurrentActivity(hd)
        payload == registerEventPayload(hd.userId, hd.userSession.avatarUrl,
                      hd.userSession.username, activity.name, "player_left")
    IN /\ hd.pc = "e298"
       /\ \E outcome \in ApiOutcomes :
            LET api == registerEvent(payload, outcome)
            IN /\ sent' = <<[payload |-> payload, response |-> api.response]>>
               /\ last' = [op |-> "end", userId |-> hd.userId,
                           activityName |-> activity.name,
                           activityType |-> activity.type,
                           ret |-> Returned(api,
                                     [sessionType |-> hd.sessionType,
                                      duration |-> hd.duration,
                                      remainingUsers |-> hd.remainingUsers,
                                      userSession |-> hd.userSession]),
                           threw |-> api.threw]
               /\ handlers' = [handlers EXCEPT ![h] =
                     IF api.threw THEN Idle
                     ELSE IF hd.sessionType = "group"
                             /\ Len(hd.remainingUsers) > 0
                          THEN [hd EXCEPT !.pc = "h100"]
                          ELSE CallDone(hd)]
       /\ UNCHANGED <<clock, storeVars, events, presence, log, commandVars>>

\* handler: getGroupSessionUsers after an end resolves (only logged)
HandlerUsersAfterEnd(h) ==
    LET hd == handlers[h]
    IN /\ hd.pc = "h100"
       /\ handlers' = [handlers EXCEPT ![h] = CallDone(hd)]
       /\ UNCHANGED <<clock, storeVars, sent, last, events, presence, log, commandVars>>

\* startUserActivity: getUserActiveSessions resolves, the session is pushed
StartGetUserSessions(h) ==
    LET hd == handlers[h]
        activity == CurrentActivity(hd)
    IN /\ hd.pc = "s121"
       /\ \E now \in DateNow(clock) :
            LET userSession == [userId |-> hd.userId,
                                username |-> UsernameOf(hd.userId),
                                avatarUrl |-> AvatarOf(hd.userId),
                                activityName |-> activity.name,
                                activityType |-> activity.type,
                                startTimestamp |-> now]
            IN /\ clock' = now
               /\ handlers' = [handlers EXCEPT ![h] = [hd EXCEPT
                     !.pc = "s123",
                     !.userSession = userSession,
                     !.sessions = Append(
                         getUserActiveSessions(userSessions, hd.userId),
                         userSession)]]
       /\ UNCHANGED <<storeVars, sent, last, events, presence, log, commandVars>>

\* startUserActivity: saveUserSessions
StartSaveUserSessions(h) ==
    LET hd == handlers[h]
    IN /\ hd.pc = "s123"
       /\ userSessions' = saveUserSessions(userSessions, hd.userId,
                                           hd.sessions)
       /\ handlers' = [handlers EXCEPT ![h] = [hd EXCEPT
             !.pc = "s126", !.sessions = <<>>]]
       /\ UNCHANGED <<clock, allActive, groups, history, sent, last, events, presence, log, commandVars>>

\* startUserActivity: getAllActiveSessions resolves, the session is pushed
StartGetAllActive(h) ==
    LET hd == handlers[h]
    IN /\ hd.pc = "s126"
       /\ handlers' = [handlers EXCEPT ![h] = [hd EXCEPT
             !.pc = "s128",
             !.allActive = Append(allActive, hd.userSession)]]
       /\ UNCHANGED <<clock, storeVars, sent, last, events, presence, log, commandVars>>

\* startUserActivity: saveAllActiveSessions
StartSaveAllActive(h) ==
    LET hd == handlers[h]
    IN /\ hd.pc = "s128"
       /\ allActive' = hd.allActive
       /\ handlers' = [handlers EXCEPT ![h] = [hd EXCEPT
             !.pc = "s131", !.allActive = <<>>]]
       /\ UNCHANGED <<clock, userSessions, groups, history, sent, last,
                      events, presence, log, commandVars>>

\* startUserActivity: getGroupSession resolves, the user is set in the group
StartGetGroupSession(h) ==
    LET hd == handlers[h]
        activity == CurrentActivity(hd)
        found == getGroupSession(groups, activity.name, activity.type)
    IN /\ hd.pc = "s131"
       /\ handlers' = [handlers EXCEPT ![h] = [hd EXCEPT
             !.pc = "s146",
             !.wasAlreadyGroup = wasAlreadyGroupOf(found),
             !.groupSession = Some(startGroupSession(found, hd.userSession,
                                      hd.userSession.startTimestamp))]]
       /\ UNCHANGED <<clock, storeVars, sent, last, events, presence, log, commandVars>>

\* startUserActivity: saveGroupSession
StartSaveGroupSession(h) ==
    LET hd == handlers[h]
    IN /\ hd.pc = "s146"
       /\ groups' = saveGroupSession(groups, hd.groupSession[1])
       /\ handlers' = [handlers EXCEPT ![h] = [hd EXCEPT
             !.pc = "s152",
             !.sessionType = startSessionType(hd.groupSession[1]),
             !.groupSession = Null]]
       /\ UNCHANGED <<clock, userSessions, allActive, history, sent, last,
                      events, presence, log, commandVars>>

\* startUserActivity: registerPlayerJoined, then the result is returned; the
\* handler reads the group again when the session is a group
StartRegisterPlayerJoined(h) ==
    LET hd == handlers[h]
        activity == CurrentActivity(hd)
        payload == registerEventPayload(hd.userId, hd.userSession.avatarUrl,
                      hd.userSession.username, activity.name, "player_joined")
    IN /\ hd.pc = "s152"
       /\ \E outcome \in ApiOutcomes :
            LET api == registerEvent(payload, outcome)
            IN /\ sent' = <<[payload |-> payload, response |-> api.response]>>
               /\ last' = [op |-> "start", userId |-> hd.userId,
                           activityName |-> activity.name,
                           activityType |-> activity.type,
                           ret |-> Returned(api,
                                     [sessionType |-> hd.sessionType,
                                      wasAlreadyGroup |-> hd.wasAlreadyGroup]),
                           threw |-> api.threw]
               /\ handlers' = [handlers EXCEPT ![h] =
                     IF api.threw THEN Idle
                     ELSE IF hd.sessionType = "group"
                          THEN [hd EXCEPT !.pc = "h153"]
                          ELSE CallDone(hd)]
       /\ UNCHANGED <<clock, storeVars, events, presence, log, commandVars>>

\* handler: getGroupSessionUsers after a start resolves (only logged)
HandlerUsersAfterStart(h) ==
    LET hd == handlers[h]
    IN /\ hd.pc = "h153"
       /\ handlers' = [handlers EXCEPT ![h] = CallDone(hd)]
       /\ UNCHANGED <<clock, storeVars, sent, last, events, presence, log, commandVars>>

Emit ==
    \E h \in Handlers, userId \in Users, oldActivities \in Presences,
       newActivities \in Presences :
        PresenceUpdate(h, userId, oldActivities, newActivities)

Resume ==
    \E h \in Handlers :
        \/ EndGetUserSessions(h)
        \/ EndGetGroupSession(h)
        \/ SaveHistoryGet(h)
        \/ SaveHistorySet(h)
        \/ EndSaveUserSessions(h)
        \/ EndGetAllActive(h)
        \/ EndSaveAllActive(h)
        \/ EndUpdateGroup(h)
        \/ EndRegisterPlayerLeft(h)
        \/ HandlerUsersAfterEnd(h)
        \/ StartGetUserSessions(h)
        \/ StartSaveUserSessions(h)
        \/ StartGetAllActive(h)
        \/ StartSaveAllActive(h)
        \/ StartGetGroupSession(h)
        \/ StartSaveGroupSession(h)
        \/ StartRegisterPlayerJoined(h)
        \/ HandlerUsersAfterStart(h)

NextAsync == Emit \/ Resume

\* The bot starts with an empty store, or with the store of an earlier
\* start: u2 has been in Chess since time 0 (the state after
\* startUserActivity("u2", ..., "Chess", 0) on the empty store).  The store
\* is kept in files under .storage, the presences are cached in memory: after
\* a restart of the bot the store still holds the session while no presence
\* of u2 is cached.
InitAsync ==
    \E playing \in BOOLEAN, cached \in BOOLEAN :
        LET userSession == [userId |-> "u2", username |-> UsernameOf("u2"),
                            avatarUrl |-> AvatarOf("u2"),
                            activityName |-> Chess0.name,
                            activityType |-> Chess0.type,
                            startTimestamp |-> 0]
            list == IF playing THEN <<userSession>> ELSE <<>>
        IN /\ clock = 0
           /\ userSessions = [u \in Users |-> IF u = "u2" THEN list ELSE <<>>]
           /\ allActive = list
           /\ groups = IF playing
                       THEN saveGroupSession(<<>>,
                              startGroupSession(Null, userSession, 0))
                       ELSE <<>>
           /\ history = <<>>
           /\ sent = <<>>
           /\ last = [op |-> "none", userId |-> "", activityName |-> "",
                      activityType |-> 0, ret |-> Null, threw |-> FALSE]
           /\ handlers = [h \in Handlers |-> Idle]
           /\ events = 0
           /\ presence = [u \in Users |->
                            IF playing /\ cached /\ u = "u2"
                            THEN <<Chess0>> ELSE <<>>]
           /\ log = <<>>
           /\ CommandInit

SpecAsync == InitAsync /\ [][NextAsync]_vars

\* ------------------------------------------------------------- queries
\* Timestamps and durations are counted in hours (3 600 000 ms).

\* the i-th Date.now() of a call during which the clock ticks once, just
\* before read k, unless it has reached the last value explored
ClockAt(c, k, i) == IF i < k \/ c >= MaxClock THEN c ELSE c + 1

RECURSIVE Sum(_)
Sum(numbers) ==
    IF numbers = <<>> THEN 0 ELSE Head(numbers) + Sum(Tail(numbers))

\* a sort with the comparison turned round: ascending keys
sortAscending(items, keys) ==
    LET n == Len(items)
        rank(i) == 1 + Cardinality({j \in 1..n :
                         \/ keys[j] < keys[i]
                         \/ keys[j] = keys[i] /\ j < i})
    IN [r \in 1..n |-> items[CHOOSE i \in 1..n : rank(i) = r]]

\* Array.prototype.sort((a, b) => key(b) - key(a)): descending keys, and the
\* sort is stable, so items with equal keys keep their order
sortDescending(items, keys) ==
    LET n == Len(items)
        rank(i) == 1 + Cardinality({j \in 1..n :
                         \/ keys[j] > keys[i]
                         \/ keys[j] = keys[i] /\ j < i})
    IN [r \in 1..n |-> items[CHOOSE i \in 1..n : rank(i) = r]]

\* the start of the window: now - 24 h, now - 7 d, now - 30 d
startTimeOf(period, now) ==
    CASE period = "day" -> now - 24
      [] period = "week" -> now - 7 * 24
      [] period = "month" -> now - 30 * 24

\* getActivityHistory that filters on the start of the entry
getActivityHistoryByStart(histories, period, now) ==
    LET startTime == startTimeOf(period, now)
        inWindow(h) == h.startTimestamp >= startTime
        kept == SelectSeq(histories, inWindow)
    IN sortDescending(kept, [i \in 1..Len(kept) |-> kept[i].endTimestamp])

\* getActivityHistory: the entries that ended in the window, latest first
getActivityHistory(histories, period, now) ==
    LET startTime == startTimeOf(period, now)
        inWindow(h) == h.endTimestamp >= startTime
        kept == SelectSeq(histories, inWindow)
    IN sortDescending(kept, [i \in 1..Len(kept) |-> kept[i].endTimestamp])

\* getAllActivities: the windowed history, and the active sessions that started
\* in a window computed from a clock read of its own
getAllActivities(period, histories, sessions, nowHistory, nowActive) ==
    LET startTime == startTimeOf(period, nowActive)
        inWindow(s) == s.startTimestamp >= startTime
    IN [active |-> SelectSeq(sessions, inWindow),
        history |-> getActivityHistory(histories, period, nowHistory)]

\* `${activityType}:${activityName}`
groupKey(session) == <<session.activityType, session.activityName>>

\* totalDurationOf that leaves the active sessions out
totalDurationHistoryOnly(historySessions, activeSessions, now) ==
    Sum([i \in 1..Len(historySessions) |-> historySessions[i].duration])

\* totalDuration of a group: the durations of its history entries, then
\* now - startTimestamp for each of its active sessions
totalDurationOf(historySessions, activeSessions, now) ==
    Sum([i \in 1..Len(historySessions) |-> historySessions[i].duration])
    + Sum([i \in 1..Len(activeSessions) |->
             now - activeSessions[i].startTimestamp])

\* totalSessions of a group: 1 is added for every history entry in the
\* history loop, and the last loop adds both lengths
totalSessionsOf(historySessions, activeSessions) ==
    Len(historySessions) + (Len(historySessions) + Len(activeSessions))

\* the ActivityGroup of a key, as the three loops leave it
activityGroupOf(key, activeList, historyList, now) ==
    LET sameKey(s) == groupKey(s) = key
        activeSessions == SelectSeq(activeList, sameKey)
        historySessions == SelectSeq(historyList, sameKey)
    IN [activityName |-> key[2], activityType |-> key[1],
        totalDuration |-> totalDurationOf(historySessions, activeSessions,
                                          now),
        totalSessions |-> totalSessionsOf(historySessions, activeSessions),
        activeUsers |-> ActivityMap([i \in 1..Len(activeSessions) |->
                                        activeSessions[i].username]),
        historySessions |-> historySessions,
        activeSessions |-> activeSessions]

\* getActivitiesByPeriod: the groups in the order the map received their keys
\* (active sessions first), each with a clock read of its own, then sorted
getActivitiesByPeriod(period, histories, sessions, c, k) ==
    LET all == getAllActivities(period, histories, sessions,
                                ClockAt(c, k, 1), ClockAt(c, k, 2))
        keys == ActivityMap(
                  [i \in 1..Len(all.active) |-> groupKey(all.active[i])]
                  \o [i \in 1..Len(all.history) |-> groupKey(all.history[i])])
        groupsMap == [g \in 1..Len(keys) |->
                        activityGroupOf(keys[g], all.active, all.history,
                                        ClockAt(c, k, 2 + g))]
    IN sortDescending(groupsMap,
                      [g \in 1..Len(keys) |-> groupsMap[g].totalDuration])

\* ---------------------------------------------------------- statistics
\* new Date(timestamp).getHours(): the hour of the day, 0..23
getHourFromTimestamp(timestamp) == timestamp % 24

\* new Date(timestamp).getDay(): 0 = Sunday; the epoch was a Thursday
getDayOfWeekFromTimestamp(timestamp) == ((timestamp \div 24) + 4) % 7

\* what a session adds to its bucket: its duration when it has ended, else
\* now - startTimestamp
durationsOf(historyList, activeList, now) ==
    [i \in 1..Len(historyList) |-> historyList[i].duration]
    \o [i \in 1..Len(activeList) |-> now - activeList[i].startTimestamp]

startsOf(historyList, activeList) ==
    [i \in 1..Len(historyList) |-> historyList[i].startTimestamp]
    \o [i \in 1..Len(activeList) |-> activeList[i].startTimestamp]

\* hourCountsOf that counts the sessions of each hour
hourCountsOfSessions(historyList, activeList, now) ==
    LET starts == startsOf(historyList, activeList)
    IN [hour \in 0..23 |->
          Sum([i \in 1..Len(starts) |->
                 IF getHourFromTimestamp(starts[i]) = hour THEN 1 ELSE 0])]

\* hourCounts: new Array(24).fill(0), then hourCounts[hour] += duration for
\* every session, by the hour of its start
hourCountsOf(historyList, activeList, now) ==
    LET starts == startsOf(historyList, activeList)
        durations == durationsOf(historyList, activeList, now)
    IN [hour \in 0..23 |->
          Sum([i \in 1..Len(starts) |->
                 IF getHourFromTimestamp(starts[i]) = hour
                 THEN durations[i] ELSE 0])]

\* dayCounts without the loop over the active sessions
dayCountsOfHistory(historyList, activeList, now) ==
    LET starts == startsOf(historyList, <<>>)
        durations == durationsOf(historyList, <<>>, now)
    IN [day \in 0..6 |->
          Sum([i \in 1..Len(starts) |->
                 IF getDayOfWeekFromTimestamp(starts[i]) = day
                 THEN durations[i] ELSE 0])]

\* dayCounts: new Array(7).fill(0), then dayCounts[day] += duration
dayCountsOf(historyList, activeList, now) ==
    LET starts == startsOf(historyList, activeList)
        durations == durationsOf(historyList, activeList, now)
    IN [day \in 0..6 |->
          Sum([i \in 1..Len(starts) |->
                 IF getDayOfWeekFromTimestamp(starts[i]) = day
                 THEN durations[i] ELSE 0])]

\* the largest value of a histogram
MathMax(counts) ==
    CHOOSE m \in {counts[i] : i \in DOMAIN counts} :
        \A i \in DOMAIN counts : counts[i] <= m

\* counts.lastIndexOf(Math.max(...counts))
lastIndexOfMax(counts) ==
    LET max == MathMax(counts)
    IN CHOOSE i \in DOMAIN counts :
         /\ counts[i] = max
         /\ \A j \in DOMAIN counts : counts[j] = max => j <= i

\* counts.indexOf(Math.max(...counts)): the first index holding the maximum
indexOfMax(counts) ==
    LET max == MathMax(counts)
    IN CHOOSE i \in DOMAIN counts :
         /\ counts[i] = max
         /\ \A j \in DOMAIN counts : counts[j] = max => i <= j

\* key.split(":"): parts.slice(1).join(":") || parts[0] || "Unknown"
nameOfKey(key) == IF key[2] # "" THEN key[2] ELSE ToString(key[1])

\* totalDuration / totalSessions, kept as numerator and denominator
averageOf(totalDuration, totalSessions) ==
    IF totalSessions > 0 THEN <<totalDuration, totalSessions>> ELSE <<0, 1>>

soloCount(historyList) ==
    Cardinality({i \in 1..Len(historyList) :
                    historyList[i].sessionType = "solo"})

\* favoriteActivities: the user's activityMap in insertion order, named,
\* without "Unknown", sorted by duration, the first five
favoriteActivitiesOf(userHistory, userActive, now) ==
    LET keys == ActivityMap(
                  [i \in 1..Len(userHistory) |-> groupKey(userHistory[i])]
                  \o [i \in 1..Len(userActive) |-> groupKey(userActive[i])])
        entry(key) ==
            LET sameKey(s) == groupKey(s) = key
                h == SelectSeq(userHistory, sameKey)
                a == SelectSeq(userActive, sameKey)
            IN [name |-> nameOfKey(key),
                duration |-> Sum(durationsOf(h, a, now)),
                sessions |-> Len(h) + Len(a)]
        known(e) == e.name # "Unknown"
        entries == SelectSeq([i \in 1..Len(keys) |-> entry(keys[i])], known)
        sorted == sortDescending(entries,
                     [i \in 1..Len(entries) |-> entries[i].duration])
    IN SubSeq(sorted, 1, IF Len(sorted) < 5 THEN Len(sorted) ELSE 5)

calculateUserStatistics(userId, historyList, activeList, now) ==
    LET mine(s) == s.userId = userId
        userHistory == SelectSeq(historyList, mine)
        userActive == SelectSeq(activeList, mine)
        totalDuration == Sum(durationsOf(userHistory, userActive, now))
        totalSessions == Len(userHistory) + Len(userActive)
    IN [userId |-> userId,
        username |-> IF userHistory # <<>> THEN userHistory[1].username
                     ELSE IF userActive # <<>> THEN userActive[1].username
                     ELSE "Unknown",
        totalDuration |-> totalDuration,
        totalSessions |-> totalSessions,
        averageSessionDuration |-> averageOf(totalDuration, totalSessions),
        favoriteActivities |-> favoriteActivitiesOf(userHistory, userActive,
                                                    now),
        soloSessions |-> soloCount(userHistory),
        groupSessions |-> Len(userHistory) - soloCount(userHistory),
        peakHour |-> indexOfMax(hourCountsOf(userHistory, userActive, now)),
        peakDay |-> indexOfMax(dayCountsOf(userHistory, userActive, now))]

calculateActivityStatistics(activityName, activityType, historyList, activeList, now) ==
    LET same(s) == /\ s.activityName = activityName
                   /\ s.activityType = activityType
        activityHistory == SelectSeq(historyList, same)
        activityActive == SelectSeq(activeList, same)
        totalDuration == Sum(durationsOf(activityHistory, activityActive,
                                         now))
        totalSessions == Len(activityHistory) + Len(activityActive)
    IN [activityName |-> activityName,
        activityType |-> activityType,
        totalDuration |-> totalDuration,
        totalSessions |-> totalSessions,
        uniqueUsers |->
            Cardinality({activityHistory[i].userId :
                            i \in 1..Len(activityHistory)}
                        \cup {activityActive[i].userId :
                                 i \in 1..Len(activityActive)}),
        averageSessionDuration |-> averageOf(totalDuration, totalSessions),
        soloSessions |-> soloCount(activityHistory),
        groupSessions |-> Len(activityHistory) - soloCount(activityHistory),
        peakHour |-> indexOfMax(hourCountsOf(activityHistory, activityActive,
                                             now))]

calculateTemporalDistribution(historyList, activeList, now) ==
    [byHour |-> hourCountsOf(historyList, activeList, now),
     byDayOfWeek |-> dayCountsOf(historyList, activeList, now)]

\* emptyRetrospective that takes the names from the "Unknown" fallbacks
emptyRetrospectiveUnknown(period, generatedAt) ==
    [period |-> period,
     generatedAt |-> generatedAt,
     general |-> [totalHours |-> 0, totalSessions |-> 0,
                  mostPopularActivity |-> "Unknown",
                  mostActiveUser |-> "Unknown",
                  peakHour |-> 0, peakDay |-> 0],
     users |-> <<>>,
     activities |-> <<>>,
     temporal |-> [byHour |-> [hour \in 0..23 |-> 0],
                   byDayOfWeek |-> [day \in 0..6 |-> 0]]]

\* what generateRetrospective returns when the period holds no session
emptyRetrospective(period, generatedAt) ==
    [period |-> period,
     generatedAt |-> generatedAt,
     general |-> [totalHours |-> 0, totalSessions |-> 0,
                  mostPopularActivity |-> "N/A",
                  mostActiveUser |-> "N/A",
                  peakHour |-> 0, peakDay |-> 0],
     users |-> <<>>,
     activities |-> <<>>,
     temporal |-> [byHour |-> [hour \in 0..23 |-> 0],
                   byDayOfWeek |-> [day \in 0..6 |-> 0]]]

\* generateRetrospective: "all" takes the whole history (sorted on the array
\* that getItem returned) and every active session, a period takes
\* getAllActivities; every statistic reads the clock for itself
generateRetrospective(period, histories, sessions, c, k) ==
    LET base == IF period = "all" THEN 0 ELSE 2
        all == IF period = "all"
               THEN [active |-> sessions,
                     history |-> sortDescending(histories,
                                    [i \in 1..Len(histories) |->
                                       histories[i].endTimestamp])]
               ELSE getAllActivities(period, histories, sessions,
                                     ClockAt(c, k, 1), ClockAt(c, k, 2))
        userIds == ActivityMap(
                     [i \in 1..Len(all.history) |-> all.history[i].userId]
                     \o [i \in 1..Len(all.active) |-> all.active[i].userId])
        activityKeys == ActivityMap(
                     [i \in 1..Len(all.history) |-> groupKey(all.history[i])]
                     \o [i \in 1..Len(all.active) |-> groupKey(all.active[i])])
        users == [i \in 1..Len(userIds) |->
                    calculateUserStatistics(userIds[i], all.history,
                       all.active, ClockAt(c, k, base + i))]
        computed == [j \in 1..Len(activityKeys) |->
                       IF nameOfKey(activityKeys[j]) = "Unknown" THEN Null
                       ELSE Some(calculateActivityStatistics(
                               nameOfKey(activityKeys[j]), activityKeys[j][1],
                               all.history, all.active,
                               ClockAt(c, k, base + Len(userIds) + j)))]
        notNull(a) == a # Null
        kept == SelectSeq(computed, notNull)
        activities == [j \in 1..Len(kept) |-> kept[j][1]]
        reads == base + Len(userIds) + Len(activityKeys)
        temporal == calculateTemporalDistribution(all.history, all.active,
                                                  ClockAt(c, k, reads + 1))
        totalDuration == Sum([i \in 1..Len(users) |-> users[i].totalDuration])
        sortedActivities == sortDescending(activities,
                               [j \in 1..Len(activities) |->
                                  activities[j].totalDuration])
        sortedUsers == sortDescending(users,
                          [i \in 1..Len(users) |-> users[i].totalDuration])
    IN IF all.history = <<>> /\ all.active = <<>>
       THEN emptyRetrospective(period, ClockAt(c, k, base + 1))
       ELSE [period |-> period,
             generatedAt |-> ClockAt(c, k, reads + 2),
             general |-> [totalHours |-> totalDuration,
                          totalSessions |-> Len(all.history)
                                            + Len(all.active),
                          mostPopularActivity |->
                              IF Len(sortedActivities) > 0
                              THEN sortedActivities[1].activityName
                              ELSE "N/A",
                          mostActiveUser |->
                              IF Len(sortedUsers) > 0
                              THEN sortedUsers[1].username ELSE "N/A",
                          peakHour |-> indexOfMax(temporal.byHour),
                          peakDay |-> indexOfMax(temporal.byDayOfWeek)],
             users |-> sortedUsers,
             activities |-> sortedActivities,
             temporal |-> temporal]

\* ------------------------------------------------- the queries as calls
Periods == {"day", "week", "month"}

\* where the clock can tick during a call: before one of its reads, or not at
\* all (always so once the clock has reached the last value explored)
ReadsOfCall == 4 + Cardinality(Users) + Cardinality({Chess0, Go0})

Ticks(c) == IF c < MaxClock THEN 1..(ReadsOfCall + 1) ELSE {ReadsOfCall + 1}

\* /atividades: getActivitiesByPeriod(period) reads the store and the clock
GetActivitiesByPeriod ==
    \E period \in Periods, k \in Ticks(clock) :
        LET result == getActivitiesByPeriod(period, history, allActive,
                                            clock, k)
        IN /\ clock' = ClockAt(clock, k, 2 + Len(result))
           /\ sent' = <<>>
           /\ last' = [op |-> "getActivitiesByPeriod", userId |-> "",
                       activityName |-> "", activityType |-> 0,
                       ret |-> Some([period |-> period, groups |-> result]),
                       threw |-> FALSE]
           /\ UNCHANGED <<storeVars, handlers, events, presence, log, commandVars>>

\* /retrospectiva: generateRetrospective(period) reads the store and the clock
GenerateRetrospective ==
    \E period \in Periods \cup {"all"}, k \in Ticks(clock) :
        LET result == generateRetrospective(period, history, allActive,
                                            clock, k)
        IN /\ clock' = result.generatedAt
           /\ sent' = <<>>
           /\ last' = [op |-> "generateRetrospective", userId |-> "",
                       activityName |-> "", activityType |-> 0,
                       ret |-> Some(result), threw |-> FALSE]
           /\ UNCHANGED <<storeVars, handlers, events, presence, log, commandVars>>

\* ------------------------------------------- the queries on given stores
\* the sessions the stores are drawn from: ended or started a few hours ago,
\* a day ago, a week ago, a month ago (the clock starts at 0)
EndedSpans == {<<-3, 2>>, <<-27, 3>>, <<-28, 2>>, <<-170, 2>>, <<-723, 2>>}

\* who was in what
Played == {<<"u1", Chess0>>, <<"u1", Go0>>, <<"u2", Chess0>>}

LiveStarts == {-1, -24, -30}

HistoryInputs ==
    {[userId |-> p[1], username |-> UsernameOf(p[1]),
      activityName |-> p[2].name, activityType |-> p[2].type,
      startTimestamp |-> span[1], endTimestamp |-> span[1] + span[2],
      duration |-> span[2],
      sessionType |-> IF span[2] = 3 THEN "group" ELSE "solo"] :
        p \in Played, span \in EndedSpans}

ActiveInputs ==
    {[userId |-> p[1], username |-> UsernameOf(p[1]),
      avatarUrl |-> AvatarOf(p[1]),
      activityName |-> p[2].name, activityType |-> p[2].type,
      startTimestamp |-> start] :
        p \in Played, start \in LiveStarts}

\* the group keys that the starts of the sessions in the list leave behind
RECURSIVE groupsOf(_)
groupsOf(sessions) ==
    IF sessions = <<>> THEN <<>>
    ELSE LET before == groupsOf(SubSeq(sessions, 1, Len(sessions) - 1))
             s == sessions[Len(sessions)]
         IN saveGroupSession(before,
               startGroupSession(
                  getGroupSession(before, s.activityName, s.activityType),
                  s, s.startTimestamp))

\* A store as earlier calls left it: the history in the order the sessions
\* ended, the active sessions in the order they started, the user lists and
\* the groups holding the active sessions.
InitStats ==
    /\ clock = 0
    /\ \E n \in 0..MaxSessions : \E m \in 0..(MaxSessions - n) :
        /\ history \in [1..n -> HistoryInputs]
        /\ allActive \in [1..m -> ActiveInputs]
    /\ \A i \in 1..(Len(history) - 1) :
          history[i].endTimestamp <= history[i + 1].endTimestamp
    /\ \A i \in 1..(Len(allActive) - 1) :
          allActive[i].startTimestamp <= allActive[i + 1].startTimestamp
    /\ userSessions = [u \in Users |->
                         LET mine(s) == s.userId = u
                         IN SelectSeq(allActive, mine)]
    /\ groups = groupsOf(allActive)
    /\ sent = <<>>
    /\ last = [op |-> "none", userId |-> "", activityName |-> "",
               activityType |-> 0, ret |-> Null, threw |-> FALSE]
    /\ handlers = [h \in Handlers |-> Idle]
    /\ events = 0
    /\ presence = [u \in Users |-> <<>>]
    /\ log = <<>>
    /\ CommandInit

\* one call on each store drawn
NextStats ==
    \/ last.op = "none" /\ GetActivitiesByPeriod
    \/ last.op = "none" /\ GenerateRetrospective
    \/ last.op = "none" /\ Start
    \/ last.op = "none" /\ End

SpecStats == InitStats /\ [][NextStats]_vars

\* ------------------------------- the retrospective and the name "Unknown"
\* an application whose presence name is the word the statistics use for a
\* key without a name
Unknown0 == [name |-> "Unknown", type |-> 0]

PlayedNamed == {<<"u1", Chess0>>, <<"u1", Unknown0>>, <<"u2", Unknown0>>}

HistoryInputsNamed ==
    {[userId |-> p[1], username |-> UsernameOf(p[1]),
      activityName |-> p[2].name, activityType |-> p[2].type,
      startTimestamp |-> span[1], endTimestamp |-> span[1] + span[2],
      duration |-> span[2],
      sessionType |-> IF span[2] = 3 THEN "group" ELSE "solo"] :
        p \in PlayedNamed, span \in {<<-3, 2>>, <<-27, 3>>}}

ActiveInputsNamed ==
    {[userId |-> p[1], username |-> UsernameOf(p[1]),
      avatarUrl |-> AvatarOf(p[1]),
      activityName |-> p[2].name, activityType |-> p[2].type,
      startTimestamp |-> start] :
        p \in PlayedNamed, start \in {-1, -30}}

\* the stores of InitStats, drawn from these sessions
InitNamed ==
    /\ clock = 0
    /\ \E n \in 0..MaxSessions : \E m \in 0..(MaxSessions - n) :
        /\ history \in [1..n -> HistoryInputsNamed]
        /\ allActive \in [1..m -> ActiveInputsNamed]
    /\ \A i \in 1..(Len(history) - 1) :
          history[i].endTimestamp <= history[i + 1].endTimestamp
    /\ \A i \in 1..(Len(allActive) - 1) :
          allActive[i].startTimestamp <= allActive[i + 1].startTimestamp
    /\ userSessions = [u \in Users |->
                         LET mine(s) == s.userId = u
                         IN SelectSeq(allActive, mine)]
    /\ groups = groupsOf(allActive)
    /\ sent = <<>>
    /\ last = [op |-> "none", userId |-> "", activityName |-> "",
               activityType |-> 0, ret |-> Null, threw |-> FALSE]
    /\ handlers = [h \in Handlers |-> Idle]
    /\ events = 0
    /\ presence = [u \in Users |-> <<>>]
    /\ log = <<>>
    /\ CommandInit

\* one retrospective on each store drawn
NextNamed == last.op = "none" /\ GenerateRetrospective

SpecNamed == InitNamed /\ [][NextNamed]_vars

\* the same executions when every event arrives after the execution before
\* it has finished
EmitWhenIdle ==
    /\ \A h \in Handlers : handlers[h].pc = "idle"
    /\ Emit

NextSerial == EmitWhenIdle \/ Resume

SpecSerial == InitAsync /\ [][NextSerial]_vars

Next == Start \/ End

Spec == Init /\ [][Next]_vars

\* the same calls, each appended to the log with what it returned
LoggedStart ==
    \E userId \in Users, activity \in Activities :
        /\ Len(log) < MaxCalls
        /\ startUserActivity(userId, UsernameOf(userId), AvatarOf(userId),
                             activity.name, activity.type)
        /\ log' = Append(log, last')
        /\ UNCHANGED commandVars

LoggedEnd ==
    \E userId \in Users, activity \in Activities :
        /\ Len(log) < MaxCalls
        /\ endUserActivity(userId, activity.name, activity.type)
        /\ log' = Append(log, last')
        /\ UNCHANGED commandVars

NextCalls == LoggedStart \/ LoggedEnd

SpecCalls == Init /\ [][NextCalls]_vars

\* ------------------------------------------------------------- export.ts
\* A JavaScript string is the sequence of its characters; a run of characters
\* that are neither a comma, a double quote nor a line feed is kept as one
\* element.
Comma == ","
Quote == "\""
LineFeed == "\n"

\* names that hold the characters the CSV writer looks for
SpecialNames == {"Foo, Bar", "say \"hi\"", "two\nlines", "\",\"", "\"", ""}

\* the characters of the strings of the model
CharsOf(str) ==
    CASE str = "Foo, Bar" -> <<"Foo", Comma, " Bar">>
      [] str = "say \"hi\"" -> <<"say ", Quote, "hi", Quote>>
      [] str = "two\nlines" -> <<"two", LineFeed, "lines">>
      [] str = "\",\"" -> <<Quote, Comma, Quote>>
      [] str = "\"" -> <<Quote>>
      [] str = "" -> <<>>
      [] OTHER -> <<str>>

\* String(value) of a number: digits, none of the three characters
NumberChars(n) == <<ToString(n)>>

\* String(value) of a quotient totalDuration / totalSessions
QuotientChars(q) ==
    IF q[1] % q[2] = 0 THEN <<ToString(q[1] \div q[2])>>
    ELSE <<ToString(q[1]), "/", ToString(q[2])>>

\* Array.prototype.join
RECURSIVE Join(_, _)
Join(parts, separator) ==
    IF parts = <<>> THEN <<>>
    ELSE IF Len(parts) = 1 THEN parts[1]
    ELSE parts[1] \o <<separator>> \o Join(Tail(parts), separator)

\* str.replace(/"/g, '""')
RECURSIVE doubleQuotes(_)
doubleQuotes(str) ==
    IF str = <<>> THEN <<>>
    ELSE (IF Head(str) = Quote THEN <<Quote, Quote>> ELSE <<Head(str)>>)
         \o doubleQuotes(Tail(str))

\* escapeCSV of export.ts on the characters of String(value)
escapeCSV(str) ==
    IF \E i \in 1..Len(str) : str[i] \in {Comma, Quote, LineFeed}
    THEN <<Quote>> \o doubleQuotes(str) \o <<Quote>>
    ELSE str

\* formatDuration of export.ts, `${hours}h ${minutes}m ${seconds}s`, of a
\* whole number of hours (the unit the statistics are counted in)
formatDuration(duration) == <<ToString(duration), "h 0m 0s">>

\* formatDuration of a quotient of hours
formatDurationOf(q) ==
    <<ToString(q[1] \div q[2]), "h ",
      ToString(((q[1] * 60) \div q[2]) % 60), "m ",
      ToString(((q[1] * 3600) \div q[2]) % 60), "s">>

\* the header line of a table: the names joined, not escaped
headerLine(names) == Join([i \in 1..Len(names) |-> <<names[i]>>], Comma)

\* topActivities[i]?.name ?? "", ?.duration ?? 0, ?.sessions ?? 0
topActivityCells(favoriteActivities, i) ==
    IF i <= Len(favoriteActivities)
    THEN <<escapeCSV(CharsOf(favoriteActivities[i].name)),
           escapeCSV(NumberChars(favoriteActivities[i].duration)),
           escapeCSV(NumberChars(favoriteActivities[i].sessions))>>
    ELSE <<escapeCSV(CharsOf("")), escapeCSV(NumberChars(0)),
           escapeCSV(NumberChars(0))>>

userRow(user) ==
    <<escapeCSV(CharsOf(user.userId)),
      escapeCSV(CharsOf(user.username)),
      escapeCSV(NumberChars(user.totalDuration)),
      escapeCSV(formatDuration(user.totalDuration)),
      escapeCSV(NumberChars(user.totalSessions)),
      escapeCSV(QuotientChars(user.averageSessionDuration)),
      escapeCSV(formatDurationOf(user.averageSessionDuration)),
      escapeCSV(NumberChars(user.soloSessions)),
      escapeCSV(NumberChars(user.groupSessions)),
      escapeCSV(NumberChars(user.peakHour)),
      escapeCSV(NumberChars(user.peakDay))>>
    \o topActivityCells(user.favoriteActivities, 1)
    \o topActivityCells(user.favoriteActivities, 2)
    \o topActivityCells(user.favoriteActivities, 3)

\* userStatisticsToCSV: the header, then one line per user, cells joined
\* by commas, lines by line feeds
userStatisticsToCSV(users) ==
    Join(<<headerLine(<<"User ID", "Username", "Total Duration (ms)",
                        "Total Duration (formatted)", "Total Sessions",
                        "Average Session Duration (ms)",
                        "Average Session Duration (formatted)",
                        "Solo Sessions", "Group Sessions", "Peak Hour",
                        "Peak Day", "Top Activity 1",
                        "Top Activity 1 Duration", "Top Activity 1 Sessions",
                        "Top Activity 2", "Top Activity 2 Duration",
                        "Top Activity 2 Sessions", "Top Activity 3",
                        "Top Activity 3 Duration",
                        "Top Activity 3 Sessions">>)>>
         \o [i \in 1..Len(users) |-> Join(userRow(users[i]), Comma)],
         LineFeed)

activityRow(activity) ==
    <<escapeCSV(CharsOf(activity.activityName)),
      escapeCSV(NumberChars(activity.activityType)),
      escapeCSV(NumberChars(activity.totalDuration)),
      escapeCSV(formatDuration(activity.totalDuration)),
      escapeCSV(NumberChars(activity.totalSessions)),
      escapeCSV(NumberChars(activity.uniqueUsers)),
      escapeCSV(QuotientChars(activity.averageSessionDuration)),
      escapeCSV(formatDurationOf(activity.averageSessionDuration)),
      escapeCSV(NumberChars(activity.soloSessions)),
      escapeCSV(NumberChars(activity.groupSessions)),
      escapeCSV(NumberChars(activity.peakHour))>>

\* activityStatisticsToCSV: the cells of a row are escaped when the row is
\* built and again, by row.map(escapeCSV), when the lines are joined
activityStatisticsToCSV(activities) ==
    Join(<<headerLine(<<"Activity Name", "Activity Type",
                        "Total Duration (ms)", "Total Duration (formatted)",
                        "Total Sessions", "Unique Users",
                        "Average Session Duration (ms)",
                        "Average Session Duration (formatted)",
                        "Solo Sessions", "Group Sessions", "Peak Hour">>)>>
         \o [i \in 1..Len(activities) |->
               LET row == activityRow(activities[i])
               IN Join([c \in 1..Len(row) |-> escapeCSV(row[c])], Comma)],
         LineFeed)

\* temporalToCSV: a table by hour, an empty line, a table by day of the week
temporalToCSV(temporal) ==
    LET dayNames == <<"Domingo", "Segunda", "Terça", "Quarta", "Quinta",
                      "Sexta", "Sábado">>
    IN
    Join(<<<<"=== Por Hora ===">>,
           headerLine(<<"Hour", "Duration (ms)", "Duration (formatted)">>)>>
         \o [i \in 1..24 |->
               Join(<<escapeCSV(NumberChars(i - 1)),
                      escapeCSV(NumberChars(temporal.byHour[i - 1])),
                      escapeCSV(formatDuration(temporal.byHour[i - 1]))>>,
                    Comma)]
         \o <<<<>>, <<"=== Por Dia da Semana ===">>,
              headerLine(<<"Day", "Duration (ms)", "Duration (formatted)">>)>>
         \o [i \in 1..7 |->
               Join(<<escapeCSV(CharsOf(dayNames[i])),
                      escapeCSV(NumberChars(temporal.byDayOfWeek[i - 1])),
                      escapeCSV(formatDuration(temporal.byDayOfWeek[i - 1]))>>,
                    Comma)],
         LineFeed)

\* exportToCSV: three files named after the period and one reading of the
\* clock
exportToCSV(data, timestamp) ==
    <<[name |-> <<data.period, timestamp, "usuarios.csv">>,
       content |-> userStatisticsToCSV(data.users)],
      [name |-> <<data.period, timestamp, "atividades.csv">>,
       content |-> activityStatisticsToCSV(data.activities)],
      [name |-> <<data.period, timestamp, "tendencias.csv">>,
       content |-> temporalToCSV(data.temporal)]>>

\* exportToJSON: JSON.stringify(data, null, 2), kept as the data it encodes
exportToJSON(data, timestamp) ==
    [name |-> <<data.period, timestamp, "json">>, content |-> data]

\* exportRetrospective(data, format): the JSON file first, then the CSV files
exportRetrospective(data, format, jsonTime, csvTime) ==
    (IF format \in {"json", "both"}
     THEN <<exportToJSON(data, jsonTime)>> ELSE <<>>)
    \o (IF format \in {"csv", "both"}
        THEN exportToCSV(data, csvTime) ELSE <<>>)

\* ---------------------------------------------------- ActivityPagination
ITEMS_PER_PAGE == 10

\* new ActivityPagination(activities, period, userId): the first page
newActivityPagination(activities, period, userId) ==
    [activities |-> activities, period |-> period, userId |-> userId,
     currentPage |-> 0]

\* Math.max(1, Math.ceil(activities.length / ITEMS_PER_PAGE))
getTotalPages(p) ==
    LET pages == (Len(p.activities) + ITEMS_PER_PAGE - 1) \div ITEMS_PER_PAGE
    IN IF pages < 1 THEN 1 ELSE pages

\* Array.prototype.slice(start, end) with 0 <= start <= end
slice(items, start, end) ==
    SubSeq(items, start + 1, IF end < Len(items) THEN end ELSE Len(items))

\* pages that run one item into the next page
getCurrentPageItemsOverlapping(p) ==
    LET start == p.currentPage * ITEMS_PER_PAGE
    IN slice(p.activities, start, start + ITEMS_PER_PAGE + 1)

getCurrentPageItems(p) ==
    LET start == p.currentPage * ITEMS_PER_PAGE
    IN slice(p.activities, start, start + ITEMS_PER_PAGE)

setPeriod(p, period) == [p EXCEPT !.period = period, !.currentPage = 0]

\* a setActivities that only goes back to the first page
setActivitiesKept(p, activities) == [p EXCEPT !.currentPage = 0]

setActivities(p, activities) ==
    [p EXCEPT !.activities = activities, !.currentPage = 0]

\* a nextPage that does not look at the number of pages
nextPageUnchecked(p) == [p EXCEPT !.currentPage = p.currentPage + 1]

\* nextPage, previousPage: the object after the call; the call returns true
\* exactly when the page has changed
nextPage(p) ==
    IF p.currentPage < getTotalPages(p) - 1
    THEN [p EXCEPT !.currentPage = p.currentPage + 1] ELSE p

previousPage(p) ==
    IF p.currentPage > 0
    THEN [p EXCEPT !.currentPage = p.currentPage - 1] ELSE p

\* goToPage(page): the object after the call; pages outside the range leave
\* it as it was
goToPage(p, page) ==
    IF page >= 0 /\ page < getTotalPages(p)
    THEN [p EXCEPT !.currentPage = page] ELSE p

\* createEmbed: the period, the footer (page, pages, total) and the items
createEmbed(p) ==
    [period |-> p.period, page |-> p.currentPage + 1,
     totalPages |-> getTotalPages(p), total |-> Len(p.activities),
     items |-> getCurrentPageItems(p)]

\* createComponents: the customId of every component carries the userId of
\* the pagination, whoever uses the component later
createComponents(p) ==
    [prev |-> [customId |-> <<"pagination", "prev", p.userId>>,
               disabled |-> p.currentPage = 0],
     next |-> [customId |-> <<"pagination", "next", p.userId>>,
               disabled |-> p.currentPage >= getTotalPages(p) - 1],
     period |-> [customId |-> <<"pagination", "period", p.userId>>,
                 default |-> p.period]]

\* customId.includes(text)
includes(customId, text) == \E i \in 1..Len(customId) : customId[i] = text

\* ------------------------------------------------------------- commands
\* which awaited storage read of a query rejects: none, the history log, the
\* list of active sessions
StorageFailures == {0, 1, 2}

\* the clock after a query that stopped at its failing read: the window of a
\* period is taken from the clock before each read, "all" reads no clock
ClockAtFailure(period, c, k, failing) ==
    IF period = "all" THEN c ELSE ClockAt(c, k, failing)

\* a catch block that answers nothing
errorRepliesNone == <<>>

\* the catch block of execute: one editReply with the error message
errorReplies == <<[method |-> "editReply", content |-> "error"]>>

\* /retrospectiva periodo formato: deferReply, generateRetrospective, then
\* the notice that there is no data, or the export and the preview with the
\* files attached; whatever is thrown inside the try is answered with the
\* error message
RetrospectivaCommand ==
    \E period \in Periods \cup {"all"}, k \in Ticks(clock) :
      \E data \in {generateRetrospective(period, history, allActive,
                                          clock, k)} :
      \E userId \in Users, format \in {"json", "csv", "both"}, failing \in StorageFailures :
        LET deferred == [method |-> "deferReply"]
            call(ret) == [op |-> "retrospectiva", userId |-> userId,
                          activityName |-> "", activityType |-> 0,
                          ret |-> ret, threw |-> FALSE]
        IN /\ sent' = <<>>
           /\ UNCHANGED <<storeVars, handlers, events, presence, log,
                          pagination, collectors, paginationInstances>>
           /\ IF failing # 0
              THEN /\ clock' = ClockAtFailure(period, clock, k, failing)
                   /\ replies' = <<deferred>> \o errorReplies
                   /\ files' = files
                   /\ last' = call(Null)
              ELSE IF data.users = <<>> /\ data.activities = <<>>
              THEN /\ clock' = data.generatedAt
                   /\ replies' = <<deferred,
                                   [method |-> "editReply",
                                    content |-> "no data"]>>
                   /\ files' = files
                   /\ last' = call(Some(data))
              ELSE \E jsonTime \in DateNow(data.generatedAt) :
                     \E csvTime \in DateNow(jsonTime) :
                       \E written \in {exportRetrospective(
                                          data, format, jsonTime,
                                          IF format = "csv" THEN jsonTime
                                          ELSE csvTime)} :
                          /\ clock' = written[Len(written)].name[2]
                          /\ files' = files \o written
                          /\ replies' =
                               <<deferred,
                                 [method |-> "editReply",
                                  content |-> "preview",
                                  embed |->
                                    [period |-> period,
                                     generatedAt |-> data.generatedAt,
                                     general |-> data.general,
                                     users |-> slice(data.users, 0, 5),
                                     activities |->
                                        slice(data.activities, 0, 5)],
                                  files |-> [i \in 1..Len(written) |->
                                               written[i].name]]>>
                          /\ last' = call(Some(data))

\* Collection.prototype.set and delete on the registry
CollectionSet(collection, key, value) ==
    [k \in (DOMAIN collection) \cup {key} |->
       IF k = key THEN value ELSE collection[k]]

CollectionDelete(collection, key) ==
    [k \in (DOMAIN collection) \ {key} |-> collection[k]]

\* /atividades filtro: deferReply, getActivitiesByPeriod, a pagination for
\* the invoker, the first page with its components, and a collector on the
\* message; whatever is thrown inside the try is answered with the error
\* message
AtividadesCommand ==
    \E period \in Periods, k \in Ticks(clock) :
      \E activities \in {getActivitiesByPeriod(period, history, allActive,
                                                clock, k)} :
      \E userId \in Users, failing \in StorageFailures :
        LET created == newActivityPagination(activities, period, userId)
            message == Len(pagination) + 1
            deferred == [method |-> "deferReply"]
            call(ret) == [op |-> "atividades", userId |-> userId,
                          activityName |-> "", activityType |-> 0,
                          ret |-> ret, threw |-> FALSE]
        IN /\ sent' = <<>>
           /\ UNCHANGED <<storeVars, handlers, events, presence, log, files>>
           /\ IF failing # 0
              THEN /\ clock' = ClockAtFailure(period, clock, k, failing)
                   /\ replies' = <<deferred>> \o errorReplies
                   /\ UNCHANGED <<pagination, collectors,
                                  paginationInstances>>
                   /\ last' = call(Null)
              ELSE /\ clock' = ClockAt(clock, k, 2 + Len(activities))
                   /\ pagination' = Append(pagination, created)
                   /\ paginationInstances' =
                        CollectionSet(paginationInstances, userId, message)
                   /\ replies' = <<deferred,
                                   [method |-> "editReply",
                                    content |-> "page",
                                    embed |-> createEmbed(created),
                                    components |->
                                       createComponents(created)]>>
                   /\ collectors' = collectors \cup {message}
                   /\ last' = call(Some(activities))

\* what a member can do with the components of the message: press a button,
\* or pick a period in the select menu
Choices ==
    {[component |-> "prev", value |-> ""],
     [component |-> "next", value |-> ""]}
    \cup {[component |-> "period", value |-> period] : period \in Periods}

\* pagination.handleInteraction for a button or select interaction: what it
\* sends and the pagination afterwards
handleInteraction(p, customId, isButton, value) ==
    IF ~includes(customId, p.userId)
    THEN [replies |-> <<[method |-> "reply", content |-> "not yours",
                         ephemeral |-> TRUE]>>,
          pagination |-> p, shouldUpdate |-> FALSE]
    ELSE LET moved == IF ~isButton THEN p
                      ELSE IF includes(customId, "prev") THEN previousPage(p)
                      ELSE IF includes(customId, "next") THEN nextPage(p)
                      ELSE p
         IN IF moved # p
            THEN [replies |-> <<[method |-> "update",
                                 embed |-> createEmbed(moved),
                                 components |-> createComponents(moved)]>>,
                  pagination |-> moved, shouldUpdate |-> TRUE]
            ELSE [replies |-> <<>>, pagination |-> p,
                  shouldUpdate |-> /\ ~isButton
                                   /\ includes(customId, "period")
                                   /\ value # p.period]

\* A member uses a component of the message while its collector runs.  The
\* interaction carries the customId that createComponents gave the
\* component; the filter of the collector and the handler look at that
\* customId only.
Collect ==
    \E message \in collectors, member \in Users, choice \in Choices :
        /\ LET p == pagination[message]
               customId == createComponents(p)[choice.component].customId
               isButton == choice.component \in {"prev", "next"}
               passes == includes(customId, p.userId)
               call(ret) == [op |-> "collect", userId |-> member,
                             activityName |-> "", activityType |-> 0,
                             ret |-> ret, threw |-> FALSE]
           IN /\ sent' = <<>>
              /\ UNCHANGED <<storeVars, handlers, events, presence, log,
                             collectors, paginationInstances, files>>
              /\ IF ~passes
                 THEN /\ replies' = <<>>
                      /\ last' = call(Some(choice))
                      /\ UNCHANGED <<clock, pagination>>
                 ELSE IF /\ ~isButton
                         /\ includes(customId, "period")
                         /\ choice.value # p.period
                 THEN \E k \in Ticks(clock) :
                      \E newActivities \in
                           {getActivitiesByPeriod(choice.value, history,
                                                  allActive, clock, k)} :
                      \E failing \in StorageFailures :
                      LET changed == setActivities(setPeriod(p, choice.value),
                                                   newActivities)
                      IN IF failing # 0
                         THEN /\ clock' = ClockAtFailure(choice.value, clock,
                                                         k, failing)
                              /\ replies' = <<[method |-> "deferUpdate"],
                                              [method |-> "followUp",
                                               content |-> "error",
                                               ephemeral |-> TRUE]>>
                              /\ last' = call(Some(choice))
                              /\ UNCHANGED pagination
                         ELSE /\ clock' = ClockAt(clock, k,
                                                  2 + Len(newActivities))
                              /\ pagination' =
                                   [pagination EXCEPT ![message] = changed]
                              /\ replies' =
                                   <<[method |-> "deferUpdate"],
                                     [method |-> "editReply",
                                      content |-> "page",
                                      embed |-> createEmbed(changed),
                                      components |->
                                         createComponents(changed)]>>
                              /\ last' = call(Some(choice))
                 ELSE LET handled == handleInteraction(p, customId, isButton,
                                                     choice.value)
                      IN /\ pagination' = [pagination EXCEPT
                                            ![message] = handled.pagination]
                         /\ replies' = handled.replies
                         /\ last' = call(Some(choice))
                         /\ UNCHANGED clock

\* the collector of a message ends after five minutes: the components are
\* disabled, the message takes no interaction any more, and the entry of the
\* invoker is deleted from the registry
CollectorEnd ==
    \E message \in collectors :
        /\ collectors' = collectors \ {message}
        /\ paginationInstances' =
             CollectionDelete(paginationInstances, pagination[message].userId)
        /\ replies' = <<[method |-> "edit", components |-> "disabled"]>>
        /\ last' = [op |-> "end of collector",
                    userId |-> pagination[message].userId,
                    activityName |-> "", activityType |-> 0, ret |-> Null,
                    threw |-> FALSE]
        /\ sent' = <<>>
        /\ UNCHANGED <<clock, storeVars, handlers, events, presence, log,
                       pagination, files>>

\* --------------------------------------------- the commands on given stores
\* one ended session of u1 and one running session of u2, under names with
\* and without the characters the CSV writer looks for
InitCommands ==
    /\ clock = 0
    /\ history \in {<<>>} \cup
         {<<[userId |-> "u1", username |-> username,
             activityName |-> activityName, activityType |-> 0,
             startTimestamp |-> -3, endTimestamp |-> -1, duration |-> 2,
             sessionType |-> "solo"]>> :
            username \in {UsernameOf("u1"), "Foo, Bar", "\",\""},
            activityName \in SpecialNames \cup {Chess0.name}}
    /\ allActive \in {<<>>} \cup
         {<<[userId |-> "u2", username |-> UsernameOf("u2"),
             avatarUrl |-> AvatarOf("u2"),
             activityName |-> activityName, activityType |-> 0,
             startTimestamp |-> -1]>> :
            activityName \in {Chess0.name, "Foo, Bar"}}
    /\ userSessions = [u \in Users |->
                         LET mine(s) == s.userId = u
                         IN SelectSeq(allActive, mine)]
    /\ groups = groupsOf(allActive)
    /\ sent = <<>>
    /\ last = [op |-> "none", userId |-> "", activityName |-> "",
               activityType |-> 0, ret |-> Null, threw |-> FALSE]
    /\ handlers = [h \in Handlers |-> Idle]
    /\ events = 0
    /\ presence = [u \in Users |-> <<>>]
    /\ log = <<>>
    /\ CommandInit

\* one command on each store drawn
NextCommands ==
    \/ last.op = "none" /\ RetrospectivaCommand
    \/ last.op = "none" /\ AtividadesCommand

SpecCommands == InitCommands /\ [][NextCommands]_vars

\* ------------------------------------------ the pages of a longer list
MaxItems == 21     \* ended sessions, each of an activity of its own

\* u1 has ended n sessions of n activities: the first half more than a day
\* ago, the others within the last hours
ItemsHistory(n) ==
    [i \in 1..n |->
       [userId |-> "u1", username |-> UsernameOf("u1"),
        activityName |-> ToString(i), activityType |-> 0,
        startTimestamp |-> IF 2 * i <= n THEN -102 ELSE -3,
        endTimestamp |-> IF 2 * i <= n THEN -100 ELSE -1,
        duration |-> 2, sessionType |-> "solo"]]

\* the lengths about the multiples of the page size
ListLengths ==
    {n \in 0..MaxItems : n % ITEMS_PER_PAGE \in {0, 1, ITEMS_PER_PAGE - 1}}

InitPages ==
    /\ clock = 0
    /\ \E n \in ListLengths : history = ItemsHistory(n)
    /\ allActive = <<>>
    /\ userSessions = [u \in Users |-> <<>>]
    /\ groups = <<>>
    /\ sent = <<>>
    /\ last = [op |-> "none", userId |-> "", activityName |-> "",
               activityType |-> 0, ret |-> Null, threw |-> FALSE]
    /\ handlers = [h \in Handlers |-> Idle]
    /\ events = 0
    /\ presence = [u \in Users |-> <<>>]
    /\ log = <<>>
    /\ CommandInit

\* one /atividades message, and what the members do with its components
NextPages ==
    \/ pagination = Null /\ AtividadesCommand
    \/ Collect
    \/ CollectorEnd

SpecPages == InitPages /\ [][NextPages]_vars

\* ------------------------------------ several /atividades messages
MaxMessages == 2   \* /atividades invocations that built a pagination

\* a store with no activity, or with one page and one item more
InitRegistry ==
    /\ clock = 0
    /\ \E n \in {0, ITEMS_PER_PAGE + 1} : history = ItemsHistory(n)
    /\ allActive = <<>>
    /\ userSessions = [u \in Users |-> <<>>]
    /\ groups = <<>>
    /\ sent = <<>>
    /\ last = [op |-> "none", userId |-> "", activityName |-> "",
               activityType |-> 0, ret |-> Null, threw |-> FALSE]
    /\ handlers = [h \in Handlers |-> Idle]
    /\ events = 0
    /\ presence = [u \in Users |-> <<>>]
    /\ log = <<>>
    /\ CommandInit

\* the members invoke /atividades, use the components of the messages and
\* the collectors end, in any order
NextRegistry ==
    \/ Len(pagination) < MaxMessages /\ AtividadesCommand
    \/ Collect
    \/ CollectorEnd

SpecRegistry == InitRegistry /\ [][NextRegistry]_vars

\* ------------------------------- the methods of a pagination, one by one
\* the lists getActivitiesByPeriod returns on the histories above
ActivityLists ==
    {getActivitiesByPeriod("month", ItemsHistory(n), <<>>, 0, 1) :
       n \in ListLengths}

\* a pagination as the constructor leaves it, on its default initial page
InitPagination ==
    /\ clock = 0
    /\ history = <<>>
    /\ allActive = <<>>
    /\ userSessions = [u \in Users |-> <<>>]
    /\ groups = <<>>
    /\ sent = <<>>
    /\ last = [op |-> "none", userId |-> "", activityName |-> "",
               activityType |-> 0, ret |-> Null, threw |-> FALSE]
    /\ handlers = [h \in Handlers |-> Idle]
    /\ events = 0
    /\ presence = [u \in Users |-> <<>>]
    /\ log = <<>>
    /\ replies = <<>>
    /\ \E activities \in ActivityLists, period \in Periods :
         pagination = <<newActivityPagination(activities, period, "u1")>>
    /\ collectors = {}
    /\ paginationInstances = <<>>
    /\ files = <<>>

\* a method of the pagination has been called: the object after the call and
\* what the call returned
MethodCall(name, after, ret) ==
    /\ pagination' = <<after>>
    /\ last' = [op |-> name, userId |-> "", activityName |-> "",
                activityType |-> 0, ret |-> ret, threw |-> FALSE]
    /\ UNCHANGED <<clock, storeVars, sent, handlers, events, presence, log,
                   replies, collectors, paginationInstances, files>>

\* nextPage, previousPage and goToPage return whether their range test
\* passed; goToPage is asked for every page of the longest list, and for one
\* before the first and one after the last
NextPagination ==
    \/ MethodCall("nextPage", nextPage(pagination[1]),
                  Some([returned |-> pagination[1].currentPage
                                       < getTotalPages(pagination[1]) - 1]))
    \/ MethodCall("previousPage", previousPage(pagination[1]),
                  Some([returned |-> pagination[1].currentPage > 0]))
    \/ \E page \in -1..((MaxItems + ITEMS_PER_PAGE - 1) \div ITEMS_PER_PAGE) :
         MethodCall("goToPage", goToPage(pagination[1], page),
                    Some([returned |-> /\ page >= 0
                                       /\ page < getTotalPages(pagination[1]),
                          page |-> page]))
    \/ \E period \in Periods :
         MethodCall("setPeriod", setPeriod(pagination[1], period), Null)
    \/ \E activities \in ActivityLists :
         MethodCall("setActivities",
                    setActivities(pagination[1], activities), Null)

SpecPagination == InitPagination /\ [][NextPagination]_vars

\* ------------------------------------------------------------ properties
\* the list holds an entry for (activityName, activityType)
HasSession(sessions, activityName, activityType) ==
    \E i \in 1..Len(sessions) :
        /\ sessions[i].activityName = activityName
        /\ sessions[i].activityType = activityType

\* the userIds in the users Map of the activity's stored GroupSession
Members(store, activityName, activityType) ==
    LET key == getGroupSessionKey(activityName, activityType)
    IN IF key \in DOMAIN store
       THEN {store[key].users[i].userId : i \in 1..Len(store[key].users)}
       ELSE {}

\* the step is a call of startUserActivity / a call of endUserActivity
IsStart == last'.op = "start"
IsEnd == last'.op = "end"

\* C1: a user's active-session list never holds two entries with the same
\* (activityName, activityType).
NoDuplicateActiveSessions ==
    \A u \in Users :
        \A i, j \in 1..Len(userSessions[u]) :
            (/\ userSessions[u][i].activityName = userSessions[u][j].activityName
             /\ userSessions[u][i].activityType = userSessions[u][j].activityType)
            => i = j

\* C2: after any sequence of completed calls, a user has an entry for an
\* activity in the active list iff the user is a member of the activity's
\* GroupSession, and iff the all-active-sessions list holds an entry for
\* (user, activity).
SessionInOnePlace ==
    \A u \in Users, a \in Activities :
        LET inList == HasSession(userSessions[u], a.name, a.type)
            inGroup == u \in Members(groups, a.name, a.type)
            inAll == \E i \in 1..Len(allActive) :
                        /\ allActive[i].userId = u
                        /\ allActive[i].activityName = a.name
                        /\ allActive[i].activityType = a.type
        IN (inList <=> inGroup) /\ (inList <=> inAll)

\* C3: an execution of handlePresenceUpdate runs to completion before the
\* next one starts: at most one execution is in flight at any time.
HandlersRunToCompletion ==
    Cardinality({h \in Handlers : handlers[h].pc # "idle"}) <= 1

\* C4: when A's start of X returns "solo" and the next call on X is a start by
\* another user B, B's start returns "group"; and when the next call on X
\* after that is A's end, it returns "group" and records "group" in history.
SameActivity(c, d) ==
    c.activityName = d.activityName /\ c.activityType = d.activityType

NoCallBetween(i, j) ==
    \A m \in (i + 1)..(j - 1) : ~SameActivity(log[m], log[i])

\* the history record a successful end at position k of the log appended
RecordOf(k) ==
    history[Cardinality({m \in 1..k : log[m].op = "end" /\ log[m].ret # Null})]

SecondUserMakesGroup ==
    \A i, j \in 1..Len(log) :
        (/\ i < j
         /\ log[i].op = "start" /\ log[i].ret[1].sessionType = "solo"
         /\ log[j].op = "start" /\ SameActivity(log[j], log[i])
         /\ log[j].userId # log[i].userId
         /\ NoCallBetween(i, j))
        => /\ log[j].ret[1].sessionType = "group"
           /\ \A k \in 1..Len(log) :
                (/\ j < k
                 /\ log[k].op = "end" /\ SameActivity(log[k], log[i])
                 /\ log[k].userId = log[i].userId
                 /\ NoCallBetween(j, k))
                => /\ log[k].ret # Null
                   /\ log[k].ret[1].sessionType = "group"
                   /\ RecordOf(k).sessionType = "group"
                   /\ RecordOf(k).userId = log[i].userId

SecondUserMadeGroup ==
    /\ Len(log) >= 3
    /\ log[1].op = "start" /\ log[1].ret[1].sessionType = "solo"
    /\ log[2].op = "start" /\ SameActivity(log[2], log[1])
    /\ log[2].userId # log[1].userId
    /\ log[2].ret[1].sessionType = "group"
    /\ log[3].op = "end" /\ SameActivity(log[3], log[1])
    /\ log[3].userId = log[1].userId
    /\ log[3].ret # Null /\ log[3].ret[1].sessionType = "group"
    /\ history[1].sessionType = "group"

\* C5: when endUserActivity succeeds for the only member left in a
\* GroupSession, the group key is removed from storage and
\* getGroupSessionUsers then returns the empty list.
LastMemberEndRemovesGroup ==
    [][(/\ IsEnd /\ last'.ret # Null
        /\ Members(groups, last'.activityName, last'.activityType)
             = {last'.userId})
       => /\ getGroupSessionKey(last'.activityName, last'.activityType)
               \notin DOMAIN groups'
          /\ getGroupSessionUsers(groups', last'.activityName,
                                  last'.activityType) = <<>>]_vars

\* one start and one successful end have happened: the end was by the only
\* member of its group
LastMemberEnded ==
    /\ last.op = "end" /\ last.ret # Null
    /\ Len(history) = 1 /\ allActive = <<>>
    /\ \A u \in Users : userSessions[u] = <<>>
    /\ DOMAIN groups = {}
    /\ getGroupSessionUsers(groups, last.activityName, last.activityType)
         = <<>>

\* C6: every ActivityHistory record satisfies
\* duration = endTimestamp - startTimestamp.
DurationIsEndMinusStart ==
    \A i \in 1..Len(history) :
        history[i].duration
          = history[i].endTimestamp - history[i].startTimestamp

\* C7: when the user has no active session matching (activityName,
\* activityType) exactly, endUserActivity returns null, leaves the user's
\* list, the global list, every GroupSession and the history unchanged, and
\* sends no notification.
EndWithoutSessionChangesNothing ==
    [][(/\ IsEnd
        /\ ~HasSession(userSessions[last'.userId], last'.activityName,
                       last'.activityType))
       => /\ last'.ret = Null
          /\ userSessions' = userSessions
          /\ allActive' = allActive
          /\ groups' = groups
          /\ history' = history
          /\ sent' = <<>>]_vars

\* an end returned null although the user is in an activity of the same name
\* with another type
EndMissedOnType ==
    /\ last.op = "end" /\ last.ret = Null
    /\ sent = <<>>
    /\ \E i \in 1..Len(userSessions[last.userId]) :
        /\ userSessions[last.userId][i].activityName = last.activityName
        /\ userSessions[last.userId][i].activityType # last.activityType

\* C8: startUserActivity returns wasAlreadyGroup = true iff the activity's
\* GroupSession had more than one member before the call.
WasAlreadyGroupIffSeveralBefore ==
    [][IsStart
       => (last'.ret[1].wasAlreadyGroup
            <=> Cardinality(Members(groups, last'.activityName,
                                    last'.activityType)) > 1)]_vars

\* C9: startUserActivity returns "group" iff the activity's GroupSession has
\* more than one member after the insert, else "solo"; a repeated start by
\* the only member returns "solo".
StartSessionTypeIffSeveralAfter ==
    [][IsStart
       => /\ last'.ret[1].sessionType \in {"solo", "group"}
          /\ last'.ret[1].sessionType = "group"
               <=> Cardinality(Members(groups', last'.activityName,
                                       last'.activityType)) > 1
          /\ Members(groups, last'.activityName, last'.activityType)
               = {last'.userId}
             => last'.ret[1].sessionType = "solo"]_vars

\* a repeated start by the only member of the group returned "solo"
RepeatedStartStaysSolo ==
    /\ last.op = "start" /\ last.ret[1].sessionType = "solo"
    /\ Members(groups, last.activityName, last.activityType) = {last.userId}
    /\ \E i, j \in 1..Len(userSessions[last.userId]) :
        /\ i # j
        /\ userSessions[last.userId][i].activityName = last.activityName
        /\ userSessions[last.userId][j].activityName = last.activityName
        /\ userSessions[last.userId][i].activityType = last.activityType
        /\ userSessions[last.userId][j].activityType = last.activityType

EndWithoutGroupSucceeds ==
    [][(/\ IsEnd
        /\ HasSession(userSessions[last'.userId], last'.activityName,
                      last'.activityType)
        /\ getGroupSession(groups, last'.activityName, last'.activityType)
             = Null)
       => /\ last'.ret # Null
          /\ last'.ret[1].sessionType = "solo"
          /\ last'.ret[1].remainingUsers = <<>>
          /\ Len(history') = Len(history) + 1
          /\ history'[Len(history')].userId = last'.userId
          /\ history'[Len(history')].activityName = last'.activityName
          /\ history'[Len(history')].activityType = last'.activityType
          /\ history'[Len(history')].sessionType = "solo"
          /\ LET sessions == userSessions[last'.userId]
                 sessionIndex == findSessionIndex(sessions, last'.activityName,
                                                  last'.activityType)
             IN /\ last'.ret[1].userSession = sessions[sessionIndex]
                /\ userSessions'[last'.userId]
                     = SubSeq(sessions, 1, sessionIndex - 1)
                       \o SubSeq(sessions, sessionIndex + 1, Len(sessions))]_vars

\* two sessions of one user in one activity were open together; the first end
\* removed the group, and the second end succeeded without one
EndedWithoutGroup ==
    /\ last.op = "end" /\ last.ret # Null
    /\ last.ret[1].sessionType = "solo" /\ last.ret[1].remainingUsers = <<>>
    /\ Len(history) = 2 /\ allActive = <<>>
    /\ \A u \in Users : userSessions[u] = <<>>
    /\ history[1].userId = history[2].userId
    /\ history[1].activityName = history[2].activityName
    /\ history[1].activityType = history[2].activityType
    /\ history[2].startTimestamp < history[1].endTimestamp

\* C12: a notification that fails (a status that is not 2xx, or an exception)
\* never throws out of startUserActivity or endUserActivity and never changes
\* session state: whatever the POST does, the stored state stays as it was
\* before the POST and the call returns the result computed before it, as
\* after a successful notification.
NotificationOutcomeChangesNothing ==
    [][\A h \in Handlers :
         (handlers[h].pc \in {"s152", "e298"} /\ handlers'[h] # handlers[h])
         => /\ Len(sent') = 1
            /\ storeVars' = storeVars
            /\ ~last'.threw
            /\ last'.userId = handlers[h].userId
            /\ last'.ret
                 = Some(IF handlers[h].pc = "s152"
                        THEN [sessionType |-> handlers[h].sessionType,
                              wasAlreadyGroup |-> handlers[h].wasAlreadyGroup]
                        ELSE [sessionType |-> handlers[h].sessionType,
                              duration |-> handlers[h].duration,
                              remainingUsers |-> handlers[h].remainingUsers,
                              userSession |-> handlers[h].userSession])]_vars

\* an end whose notification failed on an exception returned its result, with
\* the session gone from the lists and its record in the history
FailedNotificationReturned ==
    /\ Len(sent) = 1 /\ ~sent[1].response.success
    /\ sent[1].response.message = "exception"
    /\ sent[1].payload.event_type = "player_left"
    /\ last.op = "end" /\ last.ret # Null /\ ~last.threw
    /\ ~HasSession(userSessions[last.userId], last.activityName,
                   last.activityType)
    /\ Len(history) > 0 /\ history[Len(history)].userId = last.userId

IsQuery == last'.op \in {"getActivitiesByPeriod", "generateRetrospective"}

\* C13: the history log is append-only: a successful endUserActivity appends
\* exactly one record after the existing ones and leaves the earlier records
\* unchanged and in place; startUserActivity, an endUserActivity that returns
\* null, getActivitiesByPeriod and generateRetrospective never change the
\* stored log.
HistoryIsAppendOnly ==
    [][/\ (IsEnd /\ last'.ret # Null)
          => /\ Len(history') = Len(history) + 1
             /\ SubSeq(history', 1, Len(history)) = history
             /\ history'[Len(history')].userId = last'.userId
       /\ (IsStart \/ (IsEnd /\ last'.ret = Null) \/ IsQuery)
          => history' = history]_vars

\* an end on a store that held a record already: the old record is still the
\* first, the new one follows it
EndAppendedAfterOldRecord ==
    /\ last.op = "end" /\ last.ret # Null
    /\ Len(history) = 2
    /\ history[1] \in HistoryInputs
    /\ history[2].userId = last.userId
    /\ history[2].activityName = last.activityName
    /\ history[2].endTimestamp >= 0
    /\ history[2] # history[1]

\* the groups a getActivitiesByPeriod has just returned, none otherwise
ReturnedGroups ==
    IF last.op = "getActivitiesByPeriod" THEN last.ret[1].groups ELSE <<>>

\* C14: for every ActivityGroup returned by getActivitiesByPeriod,
\* totalSessions equals the number of history entries in the group plus the
\* number of active sessions in the group.
TotalSessionsCountsEachOnce ==
    \A g \in 1..Len(ReturnedGroups) :
        ReturnedGroups[g].totalSessions
          = Len(ReturnedGroups[g].historySessions)
            + Len(ReturnedGroups[g].activeSessions)

\* the window W of a period, in hours
WindowOf(period) ==
    CASE period = "day" -> 24 [] period = "week" -> 168 [] period = "month" -> 720

Occurrences(list, x) == Cardinality({i \in 1..Len(list) : list[i] = x})

\* how often a history entry / an active session occurs in the groups
InGroupHistory(groupList, h) ==
    Sum([g \in 1..Len(groupList) |->
           Occurrences(groupList[g].historySessions, h)])

InGroupActive(groupList, s) ==
    Sum([g \in 1..Len(groupList) |->
           Occurrences(groupList[g].activeSessions, s)])

\* the groups just returned hold exactly the history entries that ended at
\* or after nowHistory - W and the active sessions that started at or after
\* nowActive - W
WindowCut(nowHistory, nowActive) ==
    LET W == WindowOf(last'.ret[1].period)
        returned == last'.ret[1].groups
    IN /\ \A h \in {history[i] : i \in 1..Len(history)} :
            InGroupHistory(returned, h)
              = IF h.endTimestamp < nowHistory - W THEN 0
                ELSE Occurrences(history, h)
       /\ \A s \in {allActive[i] : i \in 1..Len(allActive)} :
            InGroupActive(returned, s)
              = IF s.startTimestamp < nowActive - W THEN 0
                ELSE Occurrences(allActive, s)
       /\ \A g \in 1..Len(returned) :
            /\ \A i \in 1..Len(returned[g].historySessions) :
                  Occurrences(history, returned[g].historySessions[i]) > 0
            /\ \A i \in 1..Len(returned[g].activeSessions) :
                  Occurrences(allActive, returned[g].activeSessions[i]) > 0

\* C15 as stated: for period day, week or month with window W = 24h, 7d or
\* 30d, the groups returned by getActivitiesByPeriod contain no history entry
\* whose endTimestamp is older than now - W and no active session whose
\* startTimestamp is older than now - W, and contain every history entry and
\* active session that is inside the window, for one value now that the clock
\* had during the call.
GroupsHoldOneWindow ==
    [][last'.op = "getActivitiesByPeriod"
       => \E now \in clock..clock' : WindowCut(now, now)]_vars

\* C15, amended: the history entries returned are those that ended at or
\* after nowHistory - W and the active sessions returned are those that
\* started at or after nowActive - W, where nowHistory is the clock value
\* getActivityHistory read and nowActive the later one getAllActivities read.
GroupsHoldExactlyTheWindow ==
    [][last'.op = "getActivitiesByPeriod"
       => \E nowHistory \in clock..clock' :
            \E nowActive \in nowHistory..clock' :
                WindowCut(nowHistory, nowActive)]_vars

\* getActivitiesByPeriod("day") returned an entry that ended exactly 24 h ago
\* and left out a session that started more than 24 h ago
DayWindowCutTheStore ==
    /\ last.op = "getActivitiesByPeriod" /\ last.ret[1].period = "day"
    /\ clock = 0
    /\ \E i \in 1..Len(history) :
          /\ history[i].endTimestamp = -24
          /\ InGroupHistory(ReturnedGroups, history[i]) = 1
    /\ \E i \in 1..Len(allActive) :
          /\ allActive[i].startTimestamp < -24
          /\ InGroupActive(ReturnedGroups, allActive[i]) = 0

\* C16: for every ActivityGroup returned by getActivitiesByPeriod,
\* totalDuration equals the sum of the durations of its history entries plus,
\* for each of its active sessions, now - startTimestamp, now being a value
\* the clock had during the call.
TotalDurationIsHistoryPlusLive ==
    [][last'.op = "getActivitiesByPeriod"
       => \A g \in 1..Len(last'.ret[1].groups) :
            LET group == last'.ret[1].groups[g]
            IN \E now \in clock..clock' :
                 group.totalDuration
                   = Sum([i \in 1..Len(group.historySessions) |->
                            group.historySessions[i].duration])
                     + Sum([i \in 1..Len(group.activeSessions) |->
                              now - group.activeSessions[i].startTimestamp])]_vars

\* a group was returned with an ended session and a running one, and its
\* total is more than the ended session lasted
GroupWithHistoryAndLive ==
    \E g \in 1..Len(ReturnedGroups) :
        /\ Len(ReturnedGroups[g].historySessions) = 1
        /\ Len(ReturnedGroups[g].activeSessions) = 1
        /\ ReturnedGroups[g].totalDuration
             > ReturnedGroups[g].historySessions[1].duration

\* C17: the sequence returned by getActivitiesByPeriod is ordered by
\* non-increasing totalDuration and contains exactly one ActivityGroup per
\* distinct (activityType, activityName) occurring in the windowed active
\* sessions or history.
GroupsSortedOnePerActivity ==
    [][last'.op = "getActivitiesByPeriod"
       => LET returned == last'.ret[1].groups
              W == WindowOf(last'.ret[1].period)
              keyOf(g) == <<returned[g].activityType, returned[g].activityName>>
          IN /\ \A g \in 1..(Len(returned) - 1) :
                  returned[g].totalDuration >= returned[g + 1].totalDuration
             /\ \A g, f \in 1..Len(returned) : keyOf(g) = keyOf(f) => g = f
             /\ \A g \in 1..Len(returned) :
                  /\ \A i \in 1..Len(returned[g].historySessions) :
                        groupKey(returned[g].historySessions[i]) = keyOf(g)
                  /\ \A i \in 1..Len(returned[g].activeSessions) :
                        groupKey(returned[g].activeSessions[i]) = keyOf(g)
             /\ \E nowHistory \in clock..clock' :
                  \E nowActive \in nowHistory..clock' :
                     {keyOf(g) : g \in 1..Len(returned)}
                       = {groupKey(history[i]) :
                            i \in {j \in 1..Len(history) :
                                     history[j].endTimestamp
                                       >= nowHistory - W}}
                         \cup {groupKey(allActive[i]) :
                            i \in {j \in 1..Len(allActive) :
                                     allActive[j].startTimestamp
                                       >= nowActive - W}}]_vars

\* two groups were returned, the one made of history before the one with the
\* active session although the map received the active one first
SortMovedLongerGroupFirst ==
    /\ Len(ReturnedGroups) = 2
    /\ ReturnedGroups[1].activeSessions = <<>>
    /\ ReturnedGroups[2].activeSessions # <<>>
    /\ ReturnedGroups[1].totalDuration > ReturnedGroups[2].totalDuration

\* no history entry and no active session lies in the period, for the window
\* that starts W before now
NothingInPeriod(period, now) ==
    IF period = "all" THEN history = <<>> /\ allActive = <<>>
    ELSE /\ \A i \in 1..Len(history) :
              history[i].endTimestamp < now - WindowOf(period)
         /\ \A i \in 1..Len(allActive) :
              allActive[i].startTimestamp < now - WindowOf(period)

\* C18: with zero history entries and zero active sessions in the selected
\* period, generateRetrospective returns totalHours = 0, totalSessions = 0,
\* mostPopularActivity = "N/A", mostActiveUser = "N/A", empty users and
\* activities lists, a 24-entry all-zero byHour and a 7-entry all-zero
\* byDayOfWeek, without failing.
EmptyPeriodGivesZeroRetrospective ==
    [][(/\ last'.op = "generateRetrospective"
        /\ NothingInPeriod(last'.ret[1].period, clock))
       => /\ ~last'.threw
          /\ last'.ret[1].general.totalHours = 0
          /\ last'.ret[1].general.totalSessions = 0
          /\ last'.ret[1].general.mostPopularActivity = "N/A"
          /\ last'.ret[1].general.mostActiveUser = "N/A"
          /\ last'.ret[1].users = <<>>
          /\ last'.ret[1].activities = <<>>
          /\ DOMAIN last'.ret[1].temporal.byHour = 0..23
          /\ \A hour \in 0..23 : last'.ret[1].temporal.byHour[hour] = 0
          /\ DOMAIN last'.ret[1].temporal.byDayOfWeek = 0..6
          /\ \A day \in 0..6 :
                last'.ret[1].temporal.byDayOfWeek[day] = 0]_vars

\* generateRetrospective("day") on a store whose only sessions ended or
\* started more than a day ago
OldSessionsOnlyGaveZero ==
    /\ last.op = "generateRetrospective" /\ last.ret[1].period = "day"
    /\ history # <<>> /\ allActive # <<>>
    /\ NothingInPeriod("day", 0)
    /\ last.ret[1].general.totalSessions = 0
    /\ last.ret[1].general.mostActiveUser = "N/A"

\* C19: given a store holding exactly one history entry (duration D > 0,
\* start at hour-of-day H) and no active sessions, generateRetrospective("all")
\* returns temporal.byHour[H] = D, every other byHour bucket 0, and
\* general.peakHour = H.
OneEntryFillsItsHour ==
    [][(/\ last'.op = "generateRetrospective"
        /\ last'.ret[1].period = "all"
        /\ Len(history) = 1 /\ allActive = <<>>
        /\ history[1].duration > 0)
       => LET D == history[1].duration
              H == history[1].startTimestamp % 24
          IN /\ last'.ret[1].temporal.byHour[H] = D
             /\ \A hour \in 0..23 :
                  hour # H => last'.ret[1].temporal.byHour[hour] = 0
             /\ last'.ret[1].general.peakHour = H]_vars

\* generateRetrospective("all") on one entry of 3 h that started at 21 h
OneEntryAtNine ==
    /\ last.op = "generateRetrospective" /\ last.ret[1].period = "all"
    /\ Len(history) = 1 /\ allActive = <<>>
    /\ history[1].duration = 3
    /\ last.ret[1].temporal.byHour[21] = 3
    /\ last.ret[1].general.peakHour = 21

\* peak is the lowest index whose bucket holds the largest value of counts
PeakIsLowestMax(counts, peak) ==
    /\ peak \in DOMAIN counts
    /\ \A i \in DOMAIN counts :
          /\ counts[i] <= counts[peak]
          /\ i < peak => counts[i] < counts[peak]

\* C20: every peak hour / peak day reported by generateRetrospective (global,
\* per-user, per-activity) is the lowest index whose bucket attains the
\* maximum value of its histogram.
PeaksAreLowestMax ==
    [][last'.op = "generateRetrospective"
       => \A r \in {last'.ret[1]} :
            /\ PeakIsLowestMax(r.temporal.byHour, r.general.peakHour)
            /\ PeakIsLowestMax(r.temporal.byDayOfWeek, r.general.peakDay)
            /\ \E nowHistory \in clock..clock' :
                 \E nowActive \in nowHistory..clock' :
                   \A all \in {IF r.period = "all"
                                THEN [active |-> allActive, history |-> history]
                                ELSE getAllActivities(r.period, history,
                                        allActive, nowHistory, nowActive)} :
                      /\ \A u \in 1..Len(r.users) :
                           \E now \in clock..clock' :
                             LET mine(s) == s.userId = r.users[u].userId
                             IN \A h \in {SelectSeq(all.history, mine)} :
                                \A a \in {SelectSeq(all.active, mine)} :
                                \A hours \in {hourCountsOf(h, a, now)} :
                                \A days \in {dayCountsOf(h, a, now)} :
                                  /\ PeakIsLowestMax(hours,
                                                     r.users[u].peakHour)
                                  /\ PeakIsLowestMax(days, r.users[u].peakDay)
                      /\ \A j \in 1..Len(r.activities) :
                           \E now \in clock..clock' :
                             LET same(s) ==
                                   /\ s.activityName
                                        = r.activities[j].activityName
                                   /\ s.activityType
                                        = r.activities[j].activityType
                             IN \A h \in {SelectSeq(all.history, same)} :
                                \A a \in {SelectSeq(all.active, same)} :
                                \A hours \in {hourCountsOf(h, a, now)} :
                                  PeakIsLowestMax(hours,
                                                  r.activities[j].peakHour)]_vars

\* two hours of the day hold the same largest total and the earlier one is
\* reported, for the whole period and for a user
TiedHoursEarlierReported ==
    /\ last.op = "generateRetrospective"
    /\ \E i, j \in 0..23 :
          /\ i < j
          /\ last.ret[1].temporal.byHour[i] = last.ret[1].temporal.byHour[j]
          /\ last.ret[1].temporal.byHour[i] > 0
          /\ \A hour \in 0..23 : last.ret[1].temporal.byHour[hour]
                                    <= last.ret[1].temporal.byHour[i]
          /\ last.ret[1].general.peakHour = i
          /\ Len(last.ret[1].users) = 1
          /\ last.ret[1].users[1].peakHour = i


\* the history entries and the active sessions of a period, the windows
\* taken at the given readings of the clock
PeriodHistory(period, now) ==
    LET inWindow(h) == period = "all" \/ h.endTimestamp >= now - WindowOf(period)
    IN SelectSeq(history, inWindow)

PeriodActive(period, now) ==
    LET inWindow(s) == period = "all" \/ s.startTimestamp >= now - WindowOf(period)
    IN SelectSeq(allActive, inWindow)

\* history durations plus live elapsed at time t of the sessions chosen
TotalAt(historyList, activeList, t) ==
    Sum([i \in 1..Len(historyList) |-> historyList[i].duration])
    + Sum([i \in 1..Len(activeList) |-> t - activeList[i].startTimestamp])

\* C21: general.mostPopularActivity is the name of an activity whose total
\* duration (history plus live elapsed) is maximal among all activities
\* present in the period's history and active sessions, general.mostActiveUser
\* is the username of a user with maximal total duration, and each is "N/A"
\* only when there are no sessions at all. (Live time is taken at any reading
\* of the clock during the call.)
MostPopularAndMostActiveAreMaximal ==
    [][last'.op = "generateRetrospective" =>
        \E nowHistory \in {clock, clock'}, nowActive \in {clock, clock'} :
          \A hist \in {PeriodHistory(last'.ret[1].period, nowHistory)},
             act \in {PeriodActive(last'.ret[1].period, nowActive)} :
            LET general == last'.ret[1].general
                keys == {groupKey(hist[i]) : i \in 1..Len(hist)}
                        \cup {groupKey(act[i]) : i \in 1..Len(act)}
                userIds == {hist[i].userId : i \in 1..Len(hist)}
                           \cup {act[i].userId : i \in 1..Len(act)}
                ofKey(key, t) ==
                    LET same(s) == groupKey(s) = key
                    IN TotalAt(SelectSeq(hist, same), SelectSeq(act, same), t)
                ofUser(userId, t) ==
                    LET mine(s) == s.userId = userId
                    IN TotalAt(SelectSeq(hist, mine), SelectSeq(act, mine), t)
            IN /\ general.mostPopularActivity = "N/A"
                    => hist = <<>> /\ act = <<>>
               /\ general.mostActiveUser = "N/A"
                    => hist = <<>> /\ act = <<>>
               /\ keys # {}
                    => \E key \in keys :
                         /\ key[2] = general.mostPopularActivity
                         /\ \A other \in keys :
                              ofKey(key, clock') >= ofKey(other, clock)
               /\ userIds # {}
                    => \E userId \in userIds :
                         /\ UsernameOf(userId) = general.mostActiveUser
                         /\ \A other \in userIds :
                              ofUser(userId, clock') >= ofUser(other, clock)]_vars


\* the position at which the name is first met in the list, 0 when it is not
FirstMet(list, name) ==
    IF \E i \in 1..Len(list) : list[i].activityName = name
    THEN CHOOSE i \in 1..Len(list) :
           /\ list[i].activityName = name
           /\ \A j \in 1..(i - 1) : list[j].activityName # name
    ELSE 0

\* the favourites are at most five, non-increasing in duration, hold the
\* activities of the sessions with the largest totals at time t, and keep
\* equal totals in the order the sessions (history, then active) are met
FavoritesAreTheTop(favorites, hist, act, t) ==
    LET met == hist \o act
        names == {met[i].activityName : i \in 1..Len(met)}
        total(name) ==
            LET same(s) == s.activityName = name
            IN TotalAt(SelectSeq(hist, same), SelectSeq(act, same), t)
        listed == {favorites[i].name : i \in 1..Len(favorites)}
    IN /\ Len(favorites) <= 5
       /\ Len(favorites) = IF Cardinality(names) < 5 THEN Cardinality(names)
                           ELSE 5
       /\ listed \subseteq names
       /\ \A i \in 1..Len(favorites) :
            /\ favorites[i].duration = total(favorites[i].name)
            /\ \A j \in (i + 1)..Len(favorites) :
                 /\ favorites[i].duration >= favorites[j].duration
                 /\ favorites[i].name # favorites[j].name
                 /\ favorites[i].duration = favorites[j].duration
                      => FirstMet(met, favorites[i].name)
                         < FirstMet(met, favorites[j].name)
            /\ \A name \in names \ listed :
                 total(name) <= favorites[i].duration

\* C22: a user's favoriteActivities holds at most 5 entries, they are the
\* user's activities with the largest total durations in non-increasing
\* order, and activities with equal duration appear in the order in which
\* they were first encountered (history entries first, then active sessions).
FavoritesAreTopFiveInOrder ==
    [][last'.op = "generateRetrospective" =>
        \E nowHistory \in {clock, clock'}, nowActive \in {clock, clock'} :
          \A hist \in {PeriodHistory(last'.ret[1].period, nowHistory)},
             act \in {PeriodActive(last'.ret[1].period, nowActive)},
             users \in {last'.ret[1].users} :
            \A u \in 1..Len(users) :
              \E t \in {clock, clock'} :
                LET mine(s) == s.userId = users[u].userId
                    userHistory == SelectSeq(hist, mine)
                IN FavoritesAreTheTop(
                     users[u].favoriteActivities,
                     sortDescending(userHistory,
                        [i \in 1..Len(userHistory) |->
                           userHistory[i].endTimestamp]),
                     SelectSeq(act, mine), t)]_vars


\* Standard CSV reading (RFC 4180).  A field that opens with a double quote
\* runs to the next double quote that is not doubled, and a doubled one
\* stands for one double quote; outside quotes a comma ends the field and a
\* line feed ends the record.  A character is outside quotes exactly when
\* an even number of double quotes stands before it.
OutsideQuotes(doc, i) ==
    Cardinality({j \in 1..(i - 1) : doc[j] = Quote}) % 2 = 0

\* the positions of the separators, and one past the end of the document
EndsOf(doc, from, to, separator) ==
    {i \in from..to : doc[i] = separator /\ OutsideQuotes(doc, i)}
    \cup {to + 1}

\* the n-th smallest of a set of positions
Nth(positions, n) ==
    CHOOSE x \in positions : Cardinality({y \in positions : y < x}) = n - 1

\* the pieces of doc[from..to] between the separators
Pieces(doc, from, to, separator) ==
    LET ends == EndsOf(doc, from, to, separator)
    IN [n \in 1..Cardinality(ends) |->
          [from |-> IF n = 1 THEN from ELSE Nth(ends, n - 1) + 1,
           to |-> Nth(ends, n) - 1]]

RECURSIVE Undouble(_)
Undouble(str) ==
    IF str = <<>> THEN <<>>
    ELSE IF Len(str) >= 2 /\ str[1] = Quote /\ str[2] = Quote
    THEN <<Quote>> \o Undouble(SubSeq(str, 3, Len(str)))
    ELSE <<str[1]>> \o Undouble(Tail(str))

\* the value of a field as it stands in the document
Unquote(field) ==
    IF Len(field) >= 2 /\ field[1] = Quote /\ field[Len(field)] = Quote
    THEN Undouble(SubSeq(field, 2, Len(field) - 1))
    ELSE field

\* the records of the document, each the sequence of its field values
ParseCSV(doc) ==
    LET lines == Pieces(doc, 1, Len(doc), LineFeed)
    IN [r \in 1..Len(lines) |->
          LET cells == Pieces(doc, lines[r].from, lines[r].to, Comma)
          IN [c \in 1..Len(cells) |->
                Unquote(SubSeq(doc, cells[c].from, cells[c].to))]]

\* the CSV files of the retrospective just exported
WrittenCSV(kind) ==
    {files[i].content : i \in {j \in 1..Len(files) : files[j].name[3] = kind}}

\* the name of the user's i-th favourite, "" when there is none
TopName(user, i) ==
    IF i <= Len(user.favoriteActivities)
    THEN user.favoriteActivities[i].name ELSE ""

\* C23: CSV export round-trip: for every field value written to the users
\* and activities CSV tables, including an activity name or username
\* containing a comma, a double quote or a newline, parsing the emitted cell
\* with standard CSV rules yields the original string.
CsvCellsReadBack ==
    last.op = "retrospectiva" /\ last.ret # Null =>
      /\ \A doc \in WrittenCSV("usuarios.csv") :
           \A table \in {ParseCSV(doc)}, users \in {last.ret[1].users} :
             /\ Len(table) = 1 + Len(users)
             /\ \A u \in 1..Len(users) :
                  /\ Len(table[u + 1]) = 20
                  /\ table[u + 1][1] = CharsOf(users[u].userId)
                  /\ table[u + 1][2] = CharsOf(users[u].username)
                  /\ table[u + 1][3] = NumberChars(users[u].totalDuration)
                  /\ table[u + 1][12] = CharsOf(TopName(users[u], 1))
                  /\ table[u + 1][15] = CharsOf(TopName(users[u], 2))
                  /\ table[u + 1][18] = CharsOf(TopName(users[u], 3))
      /\ \A doc \in WrittenCSV("atividades.csv") :
           \A table \in {ParseCSV(doc)},
              activities \in {last.ret[1].activities} :
             /\ Len(table) = 1 + Len(activities)
             /\ \A a \in 1..Len(activities) :
                  /\ Len(table[a + 1]) = 11
                  /\ table[a + 1][1] = CharsOf(activities[a].activityName)
                  /\ table[a + 1][3]
                       = NumberChars(activities[a].totalDuration)

\* the part of C23 that is about the users table alone
UsersCsvReadsBack ==
    last.op = "retrospectiva" /\ last.ret # Null =>
      \A doc \in WrittenCSV("usuarios.csv") :
        \A table \in {ParseCSV(doc)}, users \in {last.ret[1].users} :
          /\ Len(table) = 1 + Len(users)
          /\ \A u \in 1..Len(users) :
               /\ Len(table[u + 1]) = 20
               /\ table[u + 1][2] = CharsOf(users[u].username)
               /\ table[u + 1][12] = CharsOf(TopName(users[u], 1))


\* the ephemeral notice of handleInteraction
NotYoursNotice ==
    [method |-> "reply", content |-> "not yours", ephemeral |-> TRUE]

\* C24: a pagination button or select interaction performed by a user other
\* than the one who invoked the command is rejected with an ephemeral notice
\* and leaves the pagination state (currentPage, period, activities)
\* unchanged.
OtherMemberIsRejected ==
    [][(/\ last'.op = "collect"
        /\ pagination # Null
        /\ last'.userId # pagination[1].userId)
       => /\ replies' = <<NotYoursNotice>>
          /\ pagination' = pagination]_vars


\* the command that has just run; it has no result when a storage read
\* failed under it
CommandFailed ==
    last'.op \in {"atividades", "retrospectiva"} /\ last'.ret = Null

\* C25: if a storage operation fails while the atividades or retrospectiva
\* command is executing, the exception reaches the command's top-level
\* handler, which replies with the generic error message exactly once,
\* performs no retry, registers no collector, and exports no files.
StorageFailureAnsweredOnce ==
    [][CommandFailed
       => /\ ~last'.threw
          /\ replies' = <<[method |-> "deferReply"],
                          [method |-> "editReply", content |-> "error"]>>
          /\ collectors' = collectors
          /\ pagination' = pagination
          /\ files' = files
          /\ <<userSessions, allActive, groups, history>>'
               = <<userSessions, allActive, groups, history>>]_vars

\* /retrospectiva failed on a store that holds sessions: the error message
\* is the answer and nothing was exported
RetrospectivaFailedOnData ==
    /\ last.op = "retrospectiva" /\ last.ret = Null
    /\ history # <<>> /\ allActive # <<>>
    /\ Len(replies) = 2 /\ replies[2].content = "error"
    /\ files = <<>> /\ collectors = {}


\* the items of page number page of a pagination
PageItems(p, page) == getCurrentPageItems(goToPage(p, page))

RECURSIVE PagesUpTo(_, _)
\* the items of pages 0 .. page, one after the other
PagesUpTo(p, page) ==
    IF page < 0 THEN <<>>
    ELSE PagesUpTo(p, page - 1) \o PageItems(p, page)

\* C26: pagination shows 10 items per page: every page holds at most 10
\* items, only the last page may hold fewer, and the items of pages
\* 0 .. getTotalPages()-1 one after the other are the activity list exactly,
\* in order, nothing repeated or dropped; the page on display is one of them.
PagesPartitionTheList ==
    pagination # Null
    => LET p == pagination[1]
           lastPage == getTotalPages(p) - 1
       IN /\ \A page \in 0..lastPage :
               /\ Len(PageItems(p, page)) <= 10
               /\ page < lastPage => Len(PageItems(p, page)) = 10
          /\ PagesUpTo(p, lastPage) = p.activities
          /\ p.currentPage \in 0..lastPage
          /\ \A i \in 1..Len(replies) :
               "embed" \in DOMAIN replies[i]
               => replies[i].embed.items = PageItems(p, p.currentPage)

\* the third page of a list of 21 activities is on display, with one item
ThirdPageOfTwentyOne ==
    /\ pagination # Null
    /\ Len(pagination[1].activities) = 21
    /\ pagination[1].currentPage = 2
    /\ last.op = "collect"
    /\ Len(replies) = 1
    /\ replies[1].embed.items = <<pagination[1].activities[21]>>


\* C27: a GroupSession stored under sessions:{type}:{name} never has an
\* empty member set: after any sequence of completed startUserActivity /
\* endUserActivity calls, a stored GroupSession has at least one member.
StoredGroupHasMember ==
    \A key \in DOMAIN groups : Len(groups[key].users) >= 1

\* an end has taken one of two members out of a group, which stays stored
\* with the other member
EndLeftOneMember ==
    /\ last.op = "end" /\ last.ret # Null
    /\ Len(last.ret[1].remainingUsers) = 1
    /\ getGroupSessionKey(last.activityName, last.activityType)
         \in DOMAIN groups
    /\ MapKeys(groups[getGroupSessionKey(last.activityName,
                                         last.activityType)].users)
         = <<CHOOSE u \in Users : u # last.userId>>


\* the user has a session of the activity in the user's own list
InOwnList(u, a) ==
    \E i \in 1..Len(userSessions[u]) :
        /\ userSessions[u][i].activityName = a.name
        /\ userSessions[u][i].activityType = a.type

\* the user has a session of the activity in the list of all active sessions
InAllActive(u, a) ==
    \E i \in 1..Len(allActive) :
        /\ allActive[i].userId = u
        /\ allActive[i].activityName = a.name
        /\ allActive[i].activityType = a.type

\* C28: when the startUserActivity calls of two distinct users on the same
\* activity have both completed, however they interleaved at their awaited
\* reads and writes, both users are members of the activity's GroupSession
\* and both sessions are in the list of all active sessions.  (Nothing has
\* ended: the history is empty and every execution has returned.)
ConcurrentStartsLoseNothing ==
    \A a \in {Chess0, Go0} :
        (/\ \A h \in Handlers : handlers[h].pc = "idle"
         /\ history = <<>>
         /\ \A u \in Users : InOwnList(u, a))
        => \A u \in Users :
             /\ u \in Members(groups, a.name, a.type)
             /\ InAllActive(u, a)


\* the (type, name) keys of the user's active sessions
KeysOf(u) ==
    {[name |-> userSessions[u][i].activityName,
      type |-> userSessions[u][i].activityType] :
        i \in 1..Len(userSessions[u])}

SetOf(list) == {list[i] : i \in 1..Len(list)}

\* the keys of the user once the executions under way for the user have made
\* the calls they still have to make; the keys themselves when none is
KeysWhenDone(u) ==
    LET mine == {h \in Handlers : handlers[h].userId = u}
        ending == UNION {SetOf(handlers[h].ended) : h \in mine}
        starting == UNION {SetOf(handlers[h].started) : h \in mine}
    IN (KeysOf(u) \ ending) \cup starting

\* the positions of an execution inside startUserActivity
StartPositions ==
    {"s121", "s123", "s126", "s128", "s131", "s146", "s152", "h153"}

\* C29: if the keys of the user's active sessions are the activities of the
\* old presence when handlePresenceUpdate(old, new) begins, they are the
\* activities of the new presence when it has completed; every
\* endUserActivity call is made before any startUserActivity call.  Step by
\* step: an execution that begins on matching keys is left with calls that
\* lead to the new presence, every step of it keeps that, and it is in
\* startUserActivity only when nothing is left to end.
HandlerLeavesKeysOfNewPresence ==
    [][\A u \in Users :
         /\ KeysWhenDone(u) = SetOf(presence[u])
            => KeysWhenDone(u)' = SetOf(presence'[u])
         /\ \A h \in Handlers :
              handlers'[h].pc \in StartPositions
              => handlers'[h].ended = <<>>]_vars


\* the calls the executions under way for the user still have to make, the
\* one they are in included
CallsLeft(u) ==
    UNION {SetOf(handlers[h].ended) \cup SetOf(handlers[h].started) :
             h \in {g \in Handlers : handlers[g].userId = u}}

\* what the store holds of the user's sessions of an activity
EntriesOf(list, u, a) ==
    LET hit(s) == /\ s.userId = u
                  /\ s.activityName = a.name
                  /\ s.activityType = a.type
    IN SelectSeq(list, hit)

\* C30: for an activity whose key is in both the old and the new presence,
\* handlePresenceUpdate calls neither endUserActivity nor startUserActivity:
\* the execution that begins has no call for it, and while no execution has
\* a call for it, the user's stored session of it (with its startTimestamp),
\* the user's entry in its GroupSession and the history records of it are
\* left as they are; its GroupSession is left as it is while no execution of
\* any user has a call for it.
KeptActivityIsUntouched ==
    [][\A a \in {Chess0, Go0} :
         /\ (\A u \in Users : a \notin CallsLeft(u))
            => getGroupSession(groups, a.name, a.type)'
                 = getGroupSession(groups, a.name, a.type)
         /\ \A u \in Users :
            /\ (a \in SetOf(presence[u]) /\ a \in SetOf(presence'[u]))
               => \A h \in Handlers :
                    (handlers[h].pc = "idle" /\ handlers'[h].userId = u)
                    => a \notin SetOf(handlers'[h].ended)
                                  \cup SetOf(handlers'[h].started)
            /\ a \notin CallsLeft(u)
               => /\ EntriesOf(userSessions[u], u, a)'
                       = EntriesOf(userSessions[u], u, a)
                  /\ EntriesOf(allActive, u, a)' = EntriesOf(allActive, u, a)
                  /\ EntriesOf(history, u, a)' = EntriesOf(history, u, a)
                  /\ EntriesOf(getGroupSessionUsers(groups, a.name, a.type),
                               u, a)'
                       = EntriesOf(getGroupSessionUsers(groups, a.name,
                                                        a.type), u, a)]_vars

\* u2 keeps Chess and has taken up Go: the execution has saved the new
\* session next to the one of Chess, which is as the earlier start left it
StartedGoKeptChess ==
    /\ presence["u2"] = <<Chess0, Go0>>
    /\ \E h \in Handlers :
         /\ handlers[h].userId = "u2"
         /\ handlers[h].pc = "s152"
         /\ handlers[h].started = <<Go0>>
    /\ Len(userSessions["u2"]) = 2
    /\ userSessions["u2"][1].activityName = Chess0.name
    /\ userSessions["u2"][1].startTimestamp = 0
    /\ userSessions["u2"][2].activityName = Go0.name
    /\ history = <<>>


\* the step is one of execution h
StepOf(h) == handlers'[h] # handlers[h]

\* the one notification of the step, of the given event, for the user and the
\* activity of the call execution h is in
SendsOne(h, eventType) ==
    /\ Len(sent') = 1
    /\ sent'[1].payload.event_type = eventType
    /\ sent'[1].payload.discord_id = handlers[h].userId
    /\ sent'[1].payload.game_title = CurrentActivity(handlers[h]).name

\* C31: each startUserActivity call sends exactly one player_joined
\* notification and each endUserActivity call that returns non-null sends
\* exactly one player_left notification, only after all storage writes of the
\* call are done; an endUserActivity that returns null sends none.  Step by
\* step: the step that returns from the call is the only one that sends, it
\* finds the writes of the call in the store, and neither it nor what follows
\* it in the handler writes.
OneNotificationAfterTheWrites ==
    [][\A h \in Handlers :
         LET hd == handlers[h]
             pc == hd.pc
         IN /\ (StepOf(h) /\ pc = "s152")
               => /\ SendsOne(h, "player_joined")
                  /\ last'.op = "start" /\ last'.ret # Null
                  /\ InOwnList(hd.userId, CurrentActivity(hd))
                  /\ InAllActive(hd.userId, CurrentActivity(hd))
                  /\ hd.userId \in Members(groups, CurrentActivity(hd).name,
                                           CurrentActivity(hd).type)
                  /\ storeVars' = storeVars
            /\ (StepOf(h) /\ pc = "e298")
               => /\ SendsOne(h, "player_left")
                  /\ last'.op = "end" /\ last'.ret # Null
                  /\ Len(history) > 0
                  /\ history[Len(history)].userId = hd.userId
                  /\ history[Len(history)].startTimestamp
                       = hd.userSession.startTimestamp
                  /\ hd.userId \notin Members(groups, CurrentActivity(hd).name,
                                              CurrentActivity(hd).type)
                  /\ storeVars' = storeVars
            /\ (StepOf(h) /\ pc = "e229" /\ handlers'[h].pc # "e243")
               => /\ sent' = <<>>
                  /\ last'.op = "end" /\ last'.ret = Null
                  /\ storeVars' = storeVars
            /\ (StepOf(h) /\ pc \in {"h153", "h100"})
               => storeVars' = storeVars
            /\ (StepOf(h) /\ pc \notin {"s152", "e298", "e229"})
               => sent' = sent /\ last' = last]_vars

\* an end has returned its result: one player_left went out, with the record
\* in the history and the session out of the lists
LeftNotifiedAfterEnd ==
    /\ last.op = "end" /\ last.ret # Null
    /\ Len(sent) = 1 /\ sent[1].payload.event_type = "player_left"
    /\ sent[1].payload.discord_id = last.userId
    /\ Len(history) = 1 /\ history[1].userId = last.userId
    /\ userSessions[last.userId] = <<>>
    /\ \A h \in Handlers : handlers[h].pc = "idle"


\* the page of every pagination is one of its pages
PageInRange ==
    \A m \in 1..Len(pagination) :
        /\ 0 <= pagination[m].currentPage
        /\ pagination[m].currentPage < getTotalPages(pagination[m])

\* C32: on a pagination created on the default initial page, after any
\* sequence of nextPage, previousPage, goToPage, setPeriod and setActivities
\* calls 0 <= currentPage < getTotalPages() holds; nextPage on the last page,
\* previousPage on page 0 and goToPage with a page out of range return false
\* and leave currentPage as it is.
CurrentPageStaysInRange ==
    [][/\ PageInRange /\ PageInRange'
       /\ (last'.op = "nextPage"
           /\ pagination[1].currentPage = getTotalPages(pagination[1]) - 1)
          => /\ last'.ret = Some([returned |-> FALSE])
             /\ pagination'[1].currentPage = pagination[1].currentPage
       /\ (last'.op = "previousPage" /\ pagination[1].currentPage = 0)
          => /\ last'.ret = Some([returned |-> FALSE])
             /\ pagination'[1].currentPage = pagination[1].currentPage
       /\ (/\ last'.op = "goToPage"
           /\ last'.ret[1].page \notin 0..(getTotalPages(pagination[1]) - 1))
          => /\ ~last'.ret[1].returned
             /\ pagination'[1].currentPage = pagination[1].currentPage]_vars

\* goToPage(3) on the last of the three pages of 21 activities returned false
\* and the pagination is still on that page
RefusedPageAfterTheLast ==
    /\ last.op = "goToPage"
    /\ last.ret = Some([returned |-> FALSE, page |-> 3])
    /\ Len(pagination[1].activities) = 21
    /\ pagination[1].currentPage = 2


\* the step is the owner of the first message picking a period in its menu
OwnerSelects ==
    /\ last'.op = "collect"
    /\ 1 \in collectors
    /\ last'.userId = pagination[1].userId
    /\ last'.ret # Null
    /\ last'.ret[1].component = "period"

\* the pagination of the first message is now on the first page of the
\* activities of the period selected
ShowsSelectedPeriod ==
    /\ pagination'[1].period = last'.ret[1].value
    /\ pagination'[1].currentPage = 0
    /\ pagination'[1].userId = pagination[1].userId
    /\ \E k \in Ticks(clock) :
         pagination'[1].activities
           = getActivitiesByPeriod(last'.ret[1].value, history, allActive,
                                   clock, k)

\* C33 as stated: when the owner selects a period different from the current
\* one, the collector fetches the activities of the new period, sets the
\* period of the pagination to it, replaces the activity list and resets
\* currentPage to 0; selecting the current period changes neither period,
\* activities nor currentPage.
PeriodSelectionReloads ==
    [][OwnerSelects
       => IF last'.ret[1].value # pagination[1].period
          THEN ShowsSelectedPeriod
          ELSE pagination' = pagination]_vars

\* the answer to the interaction is the ephemeral error follow-up
FetchFailed ==
    /\ Len(replies') = 2
    /\ replies'[2].method = "followUp"
    /\ replies'[2].content = "error"

\* C33 amended: the same, unless the storage read of the fetch fails: then
\* the ephemeral error follow-up is the answer and period, activities and
\* currentPage stay as they were.
PeriodSelectionReloadsUnlessFetchFails ==
    [][OwnerSelects
       => IF last'.ret[1].value = pagination[1].period
          THEN pagination' = pagination
          ELSE IF FetchFailed
          THEN pagination' = pagination
          ELSE /\ ShowsSelectedPeriod
               /\ Len(replies') = 2
               /\ replies'[2].method = "editReply"
               /\ replies'[2].embed = createEmbed(pagination'[1])]_vars

\* the owner went from the day to the week: the 21 activities of the week,
\* ten more than the day has, are on display from the first page
OwnerChangedToWeek ==
    /\ last.op = "collect"
    /\ Len(pagination) = 1
    /\ last.userId = pagination[1].userId
    /\ last.ret = Some([component |-> "period", value |-> "week"])
    /\ pagination[1].period = "week"
    /\ pagination[1].currentPage = 0
    /\ Len(pagination[1].activities) = 21
    /\ Len(replies) = 2 /\ replies[2].method = "editReply"


\* the messages of the user whose collector has not ended
RunningOf(u) == {m \in collectors : pagination[m].userId = u}

\* the paginations the user's invocations have built, by message
BuiltFor(u) == {m \in 1..Len(pagination) : pagination[m].userId = u}

\* C34: the registry paginationInstances holds an entry for a user exactly
\* while the user has a collector that has not ended, and the entry is the
\* pagination of the user's most recent invocation; the end of the collector
\* of an earlier invocation does not remove the entry of a later one whose
\* collector is running.
RegistryFollowsCollectors ==
    \A u \in Users :
        /\ u \in DOMAIN paginationInstances <=> RunningOf(u) # {}
        /\ u \in DOMAIN paginationInstances
           => /\ paginationInstances[u] \in BuiltFor(u)
              /\ \A m \in BuiltFor(u) : m <= paginationInstances[u]


\* how many entries of the list have the (type, name) key
TimesListed(list, key) ==
    Cardinality({j \in 1..Len(list) :
                   <<list[j].activityType, list[j].activityName>> = key})

\* C35: in every RetrospectiveData returned by generateRetrospective, each
\* (activityName, activityType) pair of the period's history or active
\* sessions appears exactly once in the activities list, so the sum of
\* activities[].totalSessions equals general.totalSessions, which equals the
\* sum of users[].totalSessions.
EveryActivityListedOnce ==
    [][last'.op = "generateRetrospective"
       => \A r \in {last'.ret[1]} :
            /\ \E nowHistory \in clock..clock' :
                 \E nowActive \in nowHistory..clock' :
                   \A all \in {IF r.period = "all"
                                THEN [active |-> allActive, history |-> history]
                                ELSE getAllActivities(r.period, history,
                                        allActive, nowHistory, nowActive)} :
                     \A key \in {groupKey(all.history[i]) :
                                   i \in 1..Len(all.history)}
                                \cup {groupKey(all.active[i]) :
                                        i \in 1..Len(all.active)} :
                        TimesListed(r.activities, key) = 1
            /\ Sum([j \in 1..Len(r.activities) |->
                      r.activities[j].totalSessions])
                 = r.general.totalSessions
            /\ Sum([i \in 1..Len(r.users) |-> r.users[i].totalSessions])
                 = r.general.totalSessions]_vars


\* the sum of the buckets 0 .. size - 1 of a histogram
BucketSum(counts, size) == Sum([i \in 1..size |-> counts[i - 1]])

\* C36: in every RetrospectiveData returned by generateRetrospective,
\* temporal.byHour has 24 entries, temporal.byDayOfWeek has 7 entries, all
\* entries are non-negative, and the sum of byHour equals the sum of
\* byDayOfWeek.
HistogramsHaveEqualSums ==
    [][last'.op = "generateRetrospective"
       => \A temporal \in {last'.ret[1].temporal} :
            /\ DOMAIN temporal.byHour = 0..23
            /\ DOMAIN temporal.byDayOfWeek = 0..6
            /\ \A hour \in 0..23 : temporal.byHour[hour] >= 0
            /\ \A day \in 0..6 : temporal.byDayOfWeek[day] >= 0
            /\ BucketSum(temporal.byHour, 24)
                 = BucketSum(temporal.byDayOfWeek, 7)]_vars

\* a retrospective over an ended and a running session that started in
\* different hours of different days: two buckets of each histogram are
\* filled
TwoHoursOnTwoDays ==
    /\ last.op = "generateRetrospective"
    /\ last.ret[1].period = "all"
    /\ Len(history) = 1 /\ Len(allActive) = 1
    /\ Cardinality({hour \in 0..23 :
                      last.ret[1].temporal.byHour[hour] > 0}) = 2
    /\ Cardinality({day \in 0..6 :
                      last.ret[1].temporal.byDayOfWeek[day] > 0}) = 2
    /\ BucketSum(last.ret[1].temporal.byHour, 24)
         = history[1].duration + (clock - allActive[1].startTimestamp)

====
